---- MODULE Spec2Model ----
(***************************************************************************)
(* Model of ork's dependency-ordered parallel orchestration engine:        *)
(*   - the dependency resolver      (internal/service/dependency.go)       *)
(*   - the orchestrator             (internal/service/orchestrator.go)     *)
(*   - the per-service lifecycle    (internal/service/service.go)          *)
(*   - the container runtime calls  (internal/docker/container.go)         *)
(* The `up` command (internal/cli/up.go, runUp) drives them in sequence.   *)
(***************************************************************************)
EXTENDS Integers, Sequences, FiniteSets, TLC

\* ------------------------------------------------------------------------
\* Bounds
\* ------------------------------------------------------------------------

\* Longest depends_on list of a declared unit.
MaxDeps == 2

\* Largest total number of depends_on entries of a manifest.
MaxEdges == 4

\* Longest request (list of requested names).
MaxReq == 2

\* Longest list of units handed to buildDependencyLevels on its own.
MaxList == 3

\* Largest number of lifecycle methods called directly on one unit.
MaxCalls == 4

\* The calls the concurrent callers of a unit make in all.
MaxThreadCalls == 3

\* The calls of AddService and GetService the concurrent callers make in all.
MaxMapCalls == 4

\* The longest declared poll interval, in seconds.
MaxInterval == 31

\* The longest declared timeout of one HTTP attempt, in seconds.
MaxTimeout == 4

\* The names that may occur in a manifest or in a request.
Names == {"a", "b", "c"}

\* ------------------------------------------------------------------------
\* Sequence helpers
\* ------------------------------------------------------------------------

Range(s) == {s[i] : i \in DOMAIN s}

SeqsUpTo(S, n) == UNION {[1..k -> S] : k \in 0..n}

NoDup(s) == \A i, j \in DOMAIN s : i # j => s[i] # s[j]

Perms(S) == {p \in [1..Cardinality(S) -> S] : NoDup(p)}

IndexOf(s, x) == CHOOSE i \in DOMAIN s : s[i] = x

Count(s, x) == Cardinality({i \in DOMAIN s : s[i] = x})

Reverse(s) == [i \in 1..Len(s) |-> s[Len(s) + 1 - i]]

RECURSIVE SumLen(_, _)
SumLen(f, S) ==
    IF S = {} THEN 0
    ELSE LET x == CHOOSE y \in S : TRUE
         IN  Len(f[x].deps) + SumLen(f, S \ {x})

\* ------------------------------------------------------------------------
\* Errors
\* ------------------------------------------------------------------------

NoError == [kind |-> "none", name |-> "", path |-> <<>>]

NotFoundError(n) == [kind |-> "notfound", name |-> n, path |-> <<>>]

CircularError(p) == [kind |-> "circular", name |-> "", path |-> p]

\* ------------------------------------------------------------------------
\* Dependency resolver
\* ------------------------------------------------------------------------

\* The declared units of a manifest: the keys of the services map.
Declared(services) == {n \in Names : services[n].declared}

\* The depends_on list of a name; a name that is not a key has none.
DependsOn(services, n) == IF services[n].declared THEN services[n].deps ELSE <<>>

\* dependents[d]: for every unit s in map iteration order and every entry
\* of its depends_on list equal to d, one occurrence of s.
RECURSIVE DependentsOf(_, _, _)
DependentsOf(services, iterOrder, d) ==
    IF iterOrder = <<>> THEN <<>>
    ELSE LET s == Head(iterOrder)
             k == Count(DependsOn(services, s), d)
         IN  [i \in 1..k |-> s] \o DependentsOf(services, Tail(iterOrder), d)

buildDependencyGraph(services, iterOrder) ==
    [services     |-> Declared(services),
     dependencies |-> [n \in Names |-> DependsOn(services, n)],
     dependents   |-> [n \in Names |-> DependentsOf(services, iterOrder, n)]]

RECURSIVE validateServices(_, _)
\* Variant: the loop keeps going and reports the last missing name.
validateServices_LastMissing(graph, requestedServices) ==
    LET missing == {i \in DOMAIN requestedServices :
                       requestedServices[i] \notin graph.services}
    IN  IF missing = {} THEN NoError
        ELSE NotFoundError(requestedServices[CHOOSE i \in missing :
                                                \A j \in missing : j <= i])

validateServices(graph, requestedServices) ==
    IF requestedServices = <<>> THEN NoError
    ELSE IF Head(requestedServices) \notin graph.services
         THEN NotFoundError(Head(requestedServices))
         ELSE validateServices(graph, Tail(requestedServices))

\* collectDeps: post-order depth-first traversal with a visited set.
\* st = [visited |-> set of names, result |-> sequence of names]
RECURSIVE collectDeps(_, _, _), collectDepsEach(_, _, _)
\* Variant: pre-order, the unit is emitted before its dependencies.
collectDeps_PreOrder(graph, st, serviceName) ==
    IF serviceName \in st.visited THEN st
    ELSE collectDepsEach(graph,
                         [visited |-> st.visited \cup {serviceName},
                          result |-> Append(st.result, serviceName)],
                         graph.dependencies[serviceName])

collectDeps(graph, st, serviceName) ==
    IF serviceName \in st.visited THEN st
    ELSE LET st1 == [st EXCEPT !.visited = @ \cup {serviceName}]
             st2 == collectDepsEach(graph, st1, graph.dependencies[serviceName])
         IN  [st2 EXCEPT !.result = Append(@, serviceName)]

collectDepsEach(graph, st, names) ==
    IF names = <<>> THEN st
    ELSE collectDepsEach(graph, collectDeps(graph, st, Head(names)), Tail(names))

\* Variant: a fresh visited set for every requested name.
RECURSIVE collectAllDependencies_FreshVisited(_, _)
collectAllDependencies_FreshVisited(graph, requestedServices) ==
    IF requestedServices = <<>> THEN <<>>
    ELSE collectDeps(graph, [visited |-> {}, result |-> <<>>], Head(requestedServices)).result
         \o collectAllDependencies_FreshVisited(graph, Tail(requestedServices))

collectAllDependencies(graph, requestedServices) ==
    collectDepsEach(graph, [visited |-> {}, result |-> <<>>], requestedServices).result

\* detectCycle: depth-first search with a recursion stack.
\* st = [visited, recStack : sets of names, path : sequence, err : error]
RECURSIVE detectCycle(_, _, _), detectCycleDeps(_, _, _), detectCycleDeps_VisitedFirst(_, _, _)
detectCycle(graph, st, serviceName) ==
    LET st1 == [st EXCEPT !.visited = @ \cup {serviceName},
                          !.recStack = @ \cup {serviceName},
                          !.path = Append(@, serviceName)]
        st2 == detectCycleDeps(graph, st1, graph.dependencies[serviceName])
    IN  IF st2.err.kind # "none" THEN st2
        ELSE [st2 EXCEPT !.recStack = @ \ {serviceName},
                         !.path = SubSeq(@, 1, Len(@) - 1)]

\* Variant: a visited dependency is skipped before the recursion stack is
\* consulted.
detectCycleDeps_VisitedFirst(graph, st, deps) ==
    IF deps = <<>> THEN st
    ELSE LET dep == Head(deps)
         IN  IF dep \in st.visited
             THEN detectCycleDeps_VisitedFirst(graph, st, Tail(deps))
             ELSE LET st1 == detectCycle(graph, st, dep)
                  IN  IF st1.err.kind # "none" THEN st1
                      ELSE detectCycleDeps_VisitedFirst(graph, st1, Tail(deps))

detectCycleDeps(graph, st, deps) ==
    IF deps = <<>> THEN st
    ELSE LET dep == Head(deps)
         IN  IF dep \in st.recStack
             THEN [st EXCEPT !.err = CircularError(Append(st.path, dep))]
             ELSE IF dep \notin st.visited
                  THEN LET st1 == detectCycle(graph, st, dep)
                       IN  IF st1.err.kind # "none" THEN st1
                           ELSE detectCycleDeps(graph, st1, Tail(deps))
                  ELSE detectCycleDeps(graph, st, Tail(deps))

RECURSIVE detectEach(_, _, _)
detectEach(graph, st, services) ==
    IF services = <<>> THEN st
    ELSE IF Head(services) \notin st.visited
         THEN LET st1 == detectCycle(graph, st, Head(services))
              IN  IF st1.err.kind # "none" THEN st1
                  ELSE detectEach(graph, st1, Tail(services))
         ELSE detectEach(graph, st, Tail(services))

detectCircularDependencies(graph, services) ==
    detectEach(graph,
               [visited |-> {}, recStack |-> {}, path |-> <<>>, err |-> NoError],
               services).err

\* Kahn's algorithm restricted to the listed services.
inDegreeOf(graph, serviceSet, serviceName) ==
    Cardinality({i \in DOMAIN graph.dependencies[serviceName] :
                    graph.dependencies[serviceName][i] \in serviceSet})

RECURSIVE initialQueue(_, _)
initialQueue(inDegree, services) ==
    IF services = <<>> THEN <<>>
    ELSE (IF inDegree[Head(services)] = 0 THEN <<Head(services)>> ELSE <<>>)
         \o initialQueue(inDegree, Tail(services))

\* One pass over dependents[current]: st = [inDegree, queue]
RECURSIVE reduceDependents(_, _, _), reduceDependents_EnqueueEarly(_, _, _)

\* Variant: a dependent is enqueued without waiting for in-degree zero.
reduceDependents_EnqueueEarly(serviceSet, st, dependents) ==
    IF dependents = <<>> THEN st
    ELSE LET dependent == Head(dependents)
         IN  IF dependent \notin serviceSet
             THEN reduceDependents_EnqueueEarly(serviceSet, st, Tail(dependents))
             ELSE LET d == st.inDegree[dependent] - 1
                      st1 == [inDegree |-> [st.inDegree EXCEPT ![dependent] = d],
                              queue |-> Append(st.queue, dependent)]
                  IN  reduceDependents_EnqueueEarly(serviceSet, st1, Tail(dependents))

reduceDependents(serviceSet, st, dependents) ==
    IF dependents = <<>> THEN st
    ELSE LET dependent == Head(dependents)
         IN  IF dependent \notin serviceSet
             THEN reduceDependents(serviceSet, st, Tail(dependents))
             ELSE LET d == st.inDegree[dependent] - 1
                      st1 == [inDegree |-> [st.inDegree EXCEPT ![dependent] = d],
                              queue |-> IF d = 0 THEN Append(st.queue, dependent)
                                        ELSE st.queue]
                  IN  reduceDependents(serviceSet, st1, Tail(dependents))

RECURSIVE processQueue(_, _, _, _)
processQueue(graph, serviceSet, st, result) ==
    IF st.queue = <<>> THEN result
    ELSE LET current == Head(st.queue)
             st1 == reduceDependents(serviceSet,
                                     [st EXCEPT !.queue = Tail(@)],
                                     graph.dependents[current])
         IN  processQueue(graph, serviceSet, st1, Append(result, current))

topologicalSort(graph, services) ==
    LET serviceSet == Range(services)
        inDegree == [n \in Names |-> inDegreeOf(graph, serviceSet, n)]
        queue == initialQueue(inDegree, services)
    IN  processQueue(graph, serviceSet, [inDegree |-> inDegree, queue |-> queue], <<>>)

\* ResolveDependencies: [ok, order, err]; no order at all on error.
ResolveDependencies(services, requestedServices, iterOrder) ==
    LET graph == buildDependencyGraph(services, iterOrder)
        verr == validateServices(graph, requestedServices)
        allNeeded == collectAllDependencies(graph, requestedServices)
        cerr == detectCircularDependencies(graph, allNeeded)
    IN  IF verr.kind # "none" THEN [ok |-> FALSE, order |-> <<>>, err |-> verr]
        ELSE IF cerr.kind # "none" THEN [ok |-> FALSE, order |-> <<>>, err |-> cerr]
        ELSE [ok |-> TRUE, order |-> topologicalSort(graph, allNeeded), err |-> NoError]

\* ------------------------------------------------------------------------
\* Level partitioner
\* ------------------------------------------------------------------------

\* calculateServiceLevel threads the memo table and the recursion guard:
\* st = [levels : name -> level or -1 (no entry), visited : set, ret : result]
RECURSIVE calculateServiceLevel(_, _, _), maxDepLevel(_, _, _, _)
RECURSIVE maxDepLevel_LastDep(_, _, _, _)

\* Variant: a cached unit is reported at level 0.
calculateServiceLevel_CacheZero(services, st, serviceName) ==
    IF st.levels[serviceName] # -1 THEN [st EXCEPT !.ret = 0]
    ELSE IF serviceName \in st.visited THEN [st EXCEPT !.ret = 0]
    ELSE LET st1 == [st EXCEPT !.visited = @ \cup {serviceName}]
             deps == DependsOn(services, serviceName)
         IN  IF deps = <<>>
             THEN [st1 EXCEPT !.levels[serviceName] = 0, !.ret = 0]
             ELSE LET st2 == maxDepLevel(services, st1, deps, -1)
                      level == st2.ret + 1
                  IN  [st2 EXCEPT !.levels[serviceName] = level, !.ret = level]

\* Variant: the level is the maximum dependency level, without the + 1.
calculateServiceLevel_NoIncrement(services, st, serviceName) ==
    IF st.levels[serviceName] # -1 THEN [st EXCEPT !.ret = st.levels[serviceName]]
    ELSE IF serviceName \in st.visited THEN [st EXCEPT !.ret = 0]
    ELSE LET st1 == [st EXCEPT !.visited = @ \cup {serviceName}]
             deps == DependsOn(services, serviceName)
         IN  IF deps = <<>>
             THEN [st1 EXCEPT !.levels[serviceName] = 0, !.ret = 0]
             ELSE LET st2 == maxDepLevel(services, st1, deps, 0)
                      level == st2.ret
                  IN  [st2 EXCEPT !.levels[serviceName] = level, !.ret = level]

calculateServiceLevel(services, st, serviceName) ==
    IF st.levels[serviceName] # -1 THEN [st EXCEPT !.ret = st.levels[serviceName]]
    ELSE IF serviceName \in st.visited THEN [st EXCEPT !.ret = 0]
    ELSE LET st1 == [st EXCEPT !.visited = @ \cup {serviceName}]
             deps == DependsOn(services, serviceName)
         IN  IF deps = <<>>
             THEN [st1 EXCEPT !.levels[serviceName] = 0, !.ret = 0]
             ELSE LET st2 == maxDepLevel(services, st1, deps, -1)
                      level == st2.ret + 1
                  IN  [st2 EXCEPT !.levels[serviceName] = level, !.ret = level]

\* Variant: the level of the last dependency wins, whatever the others are.
maxDepLevel_LastDep(services, st, deps, maxSoFar) ==
    IF deps = <<>> THEN [st EXCEPT !.ret = maxSoFar]
    ELSE LET st1 == calculateServiceLevel(services, st, Head(deps))
         IN  maxDepLevel_LastDep(services, st1, Tail(deps), st1.ret)

\* The loop over deps; the result carries maxDepLevel in ret.
maxDepLevel(services, st, deps, maxSoFar) ==
    IF deps = <<>> THEN [st EXCEPT !.ret = maxSoFar]
    ELSE LET st1 == calculateServiceLevel(services, st, Head(deps))
             m == IF st1.ret > maxSoFar THEN st1.ret ELSE maxSoFar
         IN  maxDepLevel(services, st1, Tail(deps), m)

\* The first loop of buildDependencyLevels: one call per listed name, each
\* with a fresh visited set and the shared memo table.
RECURSIVE serviceLevelsOf(_, _, _)
serviceLevelsOf(services, levels, names) ==
    IF names = <<>> THEN levels
    ELSE LET st == calculateServiceLevel(services,
                       [levels |-> levels, visited |-> {}, ret |-> 0], Head(names))
         IN  serviceLevelsOf(services, st.levels, Tail(names))

\* Variant: the result slice is one level short.
buildDependencyLevels_DropLast(orderedServiceNames, services) ==
    IF orderedServiceNames = <<>> THEN <<>>
    ELSE LET serviceLevels == serviceLevelsOf(services, [n \in Names |-> -1],
                                              orderedServiceNames)
             used == {serviceLevels[n] : n \in Range(orderedServiceNames)}
             maxLevel == CHOOSE m \in used \cup {0} : \A k \in used : k <= m
         IN  [i \in 1..maxLevel |->
                 LET AtLevel(n) == serviceLevels[n] = i - 1
                 IN  SelectSeq(orderedServiceNames, AtLevel)]

\* Variant: one level per listed unit, in list order.
buildDependencyLevels_ByPosition(orderedServiceNames, services) ==
    [i \in 1..Len(orderedServiceNames) |-> <<orderedServiceNames[i]>>]

buildDependencyLevels(orderedServiceNames, services) ==
    IF orderedServiceNames = <<>> THEN <<>>
    ELSE LET serviceLevels == serviceLevelsOf(services, [n \in Names |-> -1],
                                              orderedServiceNames)
             used == {serviceLevels[n] : n \in Range(orderedServiceNames)}
             maxLevel == CHOOSE m \in used \cup {0} : \A k \in used : k <= m
         IN  [i \in 1..(maxLevel + 1) |->
                 LET AtLevel(n) == serviceLevels[n] = i - 1
                 IN  SelectSeq(orderedServiceNames, AtLevel)]

\* ------------------------------------------------------------------------
\* Service lifecycle and container runtime
\* ------------------------------------------------------------------------

\* A Service's mutable fields. containerID 0 is the empty string, a
\* timestamp 0 is the zero time.
New ==
    [state |-> "pending", healthStatus |-> "unknown", containerID |-> 0,
     startedAt |-> 0, stoppedAt |-> 0, lastError |-> "none"]

\* Placeholder for a name that is not a key of o.services.
NoService ==
    [state |-> "absent", healthStatus |-> "unknown", containerID |-> 0,
     startedAt |-> 0, stoppedAt |-> 0, lastError |-> "none"]

\* The runtime's container labelled with a service: status "none" (no such
\* container), "created", "up" or "exited"; id counts the containers
\* created under that label.
NoContainer == [status |-> "none", id |-> 0]

\* Start, up to the first runtime call: lock, already-running check,
\* transition to Starting.
\* Variant: a Stopped or Failed unit is rejected as well.
StartRejected_Terminal(s) == s.state \in {"running", "stopped", "failed"}

\* Variant: the already-running check is missing.
StartRejected_Never(s) == FALSE

StartRejected(s) == s.state = "running"

\* Variant: the last error is not cleared.
StartBegin_KeepError(s) ==
    [s EXCEPT !.state = "starting", !.healthStatus = "starting"]

StartBegin(s) ==
    [s EXCEPT !.state = "starting", !.healthStatus = "starting", !.lastError = "none"]

\* What the runtime can answer to the rest of Start, given the container c
\* labelled with the service.
StartOutcomes(c) ==
    {"list_fail"} \cup
    (IF c.status = "up" THEN {"already_up"}
     ELSE (IF c.status \in {"created", "exited"} THEN {"remove_fail"} ELSE {})
          \cup {"env_fail", "run_fail", "start_fail", "ok"})

\* checkAndCleanupExistingContainer, on a successful List.
Cleanup(c) == IF c.status \in {"created", "exited"} THEN [c EXCEPT !.status = "none"] ELSE c

\* Variant: the state set by checkAndCleanupExistingContainer is kept.
StartFinish_KeepsRunning(s, c, clk, o) ==
    CASE o = "list_fail" ->
           [svc |-> [s EXCEPT !.state = "failed", !.lastError = "list"],
            container |-> c, clock |-> clk, err |-> "list"]
      [] o = "already_up" ->
           [svc |-> [s EXCEPT !.containerID = c.id, !.state = "running"],
            container |-> c, clock |-> clk, err |-> "already_up"]
      [] o = "remove_fail" ->
           [svc |-> [s EXCEPT !.state = "failed", !.lastError = "remove"],
            container |-> c, clock |-> clk, err |-> "remove"]
      [] o = "env_fail" ->
           [svc |-> [s EXCEPT !.state = "failed", !.lastError = "env"],
            container |-> Cleanup(c), clock |-> clk, err |-> "env"]
      [] o = "run_fail" ->
           [svc |-> [s EXCEPT !.state = "failed", !.lastError = "run"],
            container |-> Cleanup(c), clock |-> clk, err |-> "run"]
      [] o = "start_fail" ->
           [svc |-> [s EXCEPT !.state = "failed", !.lastError = "run"],
            container |-> [status |-> "created", id |-> c.id + 1],
            clock |-> clk, err |-> "run"]
      [] o = "ok" ->
           [svc |-> [s EXCEPT !.containerID = c.id + 1, !.startedAt = clk + 1,
                              !.state = "running", !.healthStatus = "unknown"],
            container |-> [status |-> "up", id |-> c.id + 1],
            clock |-> clk + 1, err |-> "none"]

\* The rest of Start: cleanup of an existing container, environment, Run
\* (pull, create, start), network attach, final state.
StartFinish(s, c, clk, o) ==
    CASE o = "list_fail" ->
           [svc |-> [s EXCEPT !.state = "failed", !.lastError = "list"],
            container |-> c, clock |-> clk, err |-> "list"]
      [] o = "already_up" ->
           [svc |-> [s EXCEPT !.containerID = c.id, !.state = "failed",
                              !.lastError = "already_up"],
            container |-> c, clock |-> clk, err |-> "already_up"]
      [] o = "remove_fail" ->
           [svc |-> [s EXCEPT !.state = "failed", !.lastError = "remove"],
            container |-> c, clock |-> clk, err |-> "remove"]
      [] o = "env_fail" ->
           [svc |-> [s EXCEPT !.state = "failed", !.lastError = "env"],
            container |-> Cleanup(c), clock |-> clk, err |-> "env"]
      [] o = "run_fail" ->
           [svc |-> [s EXCEPT !.state = "failed", !.lastError = "run"],
            container |-> Cleanup(c), clock |-> clk, err |-> "run"]
      [] o = "start_fail" ->
           [svc |-> [s EXCEPT !.state = "failed", !.lastError = "run"],
            container |-> [status |-> "created", id |-> c.id + 1],
            clock |-> clk, err |-> "run"]
      [] o = "ok" ->
           [svc |-> [s EXCEPT !.containerID = c.id + 1, !.startedAt = clk + 1,
                              !.state = "running", !.healthStatus = "unknown"],
            container |-> [status |-> "up", id |-> c.id + 1],
            clock |-> clk + 1, err |-> "none"]

\* The client methods Start calls for an outcome: List, Remove for a
\* stopped container, Run, ConnectContainer.
StartRuntimeCalls(c, o) ==
    LET rm == IF c.status \in {"created", "exited"} THEN 1 ELSE 0
    IN  CASE o \in {"list_fail", "already_up"} -> 1
          [] o = "remove_fail"                 -> 2
          [] o = "env_fail"                    -> 1 + rm
          [] o \in {"run_fail", "start_fail"}  -> 2 + rm
          [] o = "ok"                          -> 3 + rm

\* The calls of client.Run among them.
StartRuns(o) == IF o \in {"run_fail", "start_fail", "ok"} THEN 1 ELSE 0

\* Variant: the Pending / Stopped check is missing.
StopOutcomes_NoGuard(s, c) ==
    IF s.containerID = 0 THEN {"no_container_id"}
    ELSE {"stop_fail"} \cup
         (IF c.status # "none" /\ c.id = s.containerID THEN {"remove_fail", "ok"} ELSE {})

\* What Stop can meet.
StopOutcomes(s, c) ==
    IF s.state \in {"stopped", "pending"} THEN {"not_running"}
    ELSE IF s.containerID = 0 THEN {"no_container_id"}
    ELSE {"stop_fail"} \cup
         (IF c.status # "none" /\ c.id = s.containerID THEN {"remove_fail", "ok"} ELSE {})

\* Variant: a successful Stop keeps the runtime handle.
Stop_KeepHandle(s, c, clk, o) ==
    CASE o = "not_running" ->
           [svc |-> s, container |-> c, clock |-> clk, err |-> "not_running"]
      [] o = "no_container_id" ->
           [svc |-> s, container |-> c, clock |-> clk, err |-> "no_container_id"]
      [] o = "stop_fail" ->
           [svc |-> [s EXCEPT !.state = "failed", !.lastError = "stop"],
            container |-> c, clock |-> clk, err |-> "stop"]
      [] o = "remove_fail" ->
           [svc |-> [s EXCEPT !.state = "failed", !.lastError = "stop"],
            container |-> [c EXCEPT !.status = IF @ = "created" THEN @ ELSE "exited"],
            clock |-> clk, err |-> "stop"]
      [] o = "ok" ->
           [svc |-> [s EXCEPT !.state = "stopped", !.healthStatus = "unknown",
                              !.stoppedAt = clk + 1],
            container |-> [c EXCEPT !.status = "none"],
            clock |-> clk + 1, err |-> "none"]

\* Stop past its two checks: Stopping, client.StopAndRemove, final state.
Stop(s, c, clk, o) ==
    CASE o = "not_running" ->
           [svc |-> s, container |-> c, clock |-> clk, err |-> "not_running"]
      [] o = "no_container_id" ->
           [svc |-> s, container |-> c, clock |-> clk, err |-> "no_container_id"]
      [] o = "stop_fail" ->
           [svc |-> [s EXCEPT !.state = "failed", !.lastError = "stop"],
            container |-> c, clock |-> clk, err |-> "stop"]
      [] o = "remove_fail" ->
           [svc |-> [s EXCEPT !.state = "failed", !.lastError = "stop"],
            container |-> [c EXCEPT !.status = IF @ = "created" THEN @ ELSE "exited"],
            clock |-> clk, err |-> "stop"]
      [] o = "ok" ->
           [svc |-> [s EXCEPT !.state = "stopped", !.healthStatus = "unknown",
                              !.stoppedAt = clk + 1, !.containerID = 0],
            container |-> [c EXCEPT !.status = "none"],
            clock |-> clk + 1, err |-> "none"]

\* Variant: the running check is missing.
CheckHealthOutcomes_NoGuard(s, health) ==
    IF health = "http" THEN {"probe_ok", "probe_fail"}
    ELSE {"no_probe"}

\* Variant: a declared probe is performed even when its endpoint is empty.
CheckHealthOutcomes_ProbeDeclared(s, health) ==
    IF s.state # "running" THEN {"not_running"}
    ELSE IF health # "none" THEN {"probe_ok", "probe_fail"}
    ELSE {"no_probe"}

\* What CheckHealth can meet; health is the unit's Config.Health: "none"
\* (nil), "noendpoint" (declared with an empty endpoint) or "http".
CheckHealthOutcomes(s, health) ==
    IF s.state # "running" THEN {"not_running"}
    ELSE IF health = "http" THEN {"probe_ok", "probe_fail"}
    ELSE {"no_probe"}

\* The calls of performHTTPHealthCheck CheckHealth makes for an outcome.
CheckHealthProbes(o) == IF o \in {"probe_ok", "probe_fail"} THEN 1 ELSE 0

\* Variant: a failed probe fails the unit.
CheckHealth_FailUnit(s, o) ==
    CASE o = "not_running" -> [svc |-> s, err |-> "not_running"]
      [] o = "probe_fail"  -> [svc |-> [s EXCEPT !.healthStatus = "unhealthy",
                                                 !.state = "failed"], err |-> "probe"]
      [] OTHER             -> [svc |-> [s EXCEPT !.healthStatus = "healthy"], err |-> "none"]

CheckHealth(s, o) ==
    CASE o = "not_running" -> [svc |-> s, err |-> "not_running"]
      [] o = "probe_fail"  -> [svc |-> [s EXCEPT !.healthStatus = "unhealthy"], err |-> "probe"]
      [] OTHER             -> [svc |-> [s EXCEPT !.healthStatus = "healthy"], err |-> "none"]

\* The runtime and the probe take the caller's ctx: once it is cancelled
\* every runtime call and every HTTP probe fails.
StartOutcomesCtx(c, done) == IF done THEN {"list_fail"} ELSE StartOutcomes(c)

StopOutcomesCtx(s, c, done) ==
    IF done THEN StopOutcomes(s, c) \ {"remove_fail", "ok"} ELSE StopOutcomes(s, c)

CheckHealthOutcomesCtx(s, health, done) ==
    IF done THEN CheckHealthOutcomes(s, health) \ {"probe_ok"}
    ELSE CheckHealthOutcomes(s, health)

\* Errors of a run: the unit, the phase and the cause.
NoRunError == [kind |-> "none", svc |-> "", cause |-> "none"]

RunError(k, n, c) == [kind |-> k, svc |-> n, cause |-> c]

\* ------------------------------------------------------------------------
\* State
\* ------------------------------------------------------------------------

VARIABLES
    decl,            \* cfg.Services: name -> [declared, deps, health]
    request,         \* the requested names
    pc,              \* position of the up command / of StartServicesInOrder
    order,           \* orderedServices returned by ResolveDependencies
    resolveErr,      \* error returned by ResolveDependencies
    network,         \* the project network exists
    oServices,       \* o.services: name -> Service fields (NoService: no key)
    levels,          \* the levels built by buildDependencyLevels
    levelNum,        \* index of the level being processed (1-based)
    startedServices, \* the shared list of successfully started units
    gpc,             \* position of the goroutine launched for a unit
    errChan,         \* the buffered error channel of the current join
    runErr,          \* error returned by StartServicesInOrder / runUp
    rbQueue,         \* the units rollback still has to stop, in order
    containers,      \* the runtime: name -> container labelled with it
    pre,             \* the containers that existed before the command
    clock,           \* source of the startedAt / stoppedAt timestamps
    startLog,        \* history: units on which Start was invoked, in order
    stopLog,         \* history: units on which Stop was invoked, in order
    cancelled,       \* ctx.Done() is closed
    lastCall,        \* history: the last lifecycle method called directly
    mu,              \* the unit's sync.RWMutex: its writer and its readers
    tpc,             \* position of each concurrent caller of the unit
    seen,            \* history: what the last getter of each caller returned
    committed,       \* history: the fields as the last completed method left them
    scenario,        \* what the callers may call and how the runtime answers
    acc,             \* the accesses to o.services in flight, per caller
    gate             \* waitForServiceHealth on its own: interval, time, probes

resolveVars == <<decl, request, order, resolveErr>>

runVars == <<network, oServices, levels, levelNum, startedServices, gpc,
             errChan, runErr, rbQueue, containers, pre, clock, startLog, stopLog>>

callVars == <<cancelled, lastCall>>

threadVars == <<mu, tpc, seen, committed, scenario>>

extVars == <<threadVars, acc, gate>>

vars == <<pc, resolveVars, runVars, callVars, extVars>>

\* The goroutines that call into one Orchestrator or one Service.
Threads == {"t1", "t2"}

NoLock == [w |-> "", r |-> {}]

\* A caller that is in no method.
Idle == [outer |-> "none", m |-> "none", at |-> "idle", calls |-> 0,
         op |-> "none", err |-> "none"]

NoScenario == [reliable |-> TRUE, methods |-> {}]

NoAccess == [m |-> "none", name |-> "", raced |-> FALSE, calls |-> 0, adds |-> 0]

\* Config.Health.Interval: the text and, when time.ParseDuration accepts
\* it, the duration.
NoInterval == [text |-> "empty", d |-> 0]

NoGate ==
    [timeout |-> NoInterval, retries |-> 0, ticker |-> 0, readyAt |-> 0, hangs |-> FALSE,
     now |-> 0, lastRecv |-> 0, attempt |-> 0, probes |-> 0, result |-> "none"]

\* The values of the additional variables when nothing uses them.
InitExt ==
    /\ mu = NoLock
    /\ tpc = [t \in Threads |-> Idle]
    /\ seen = [t \in Threads |-> NoService]
    /\ committed = NoService
    /\ scenario = NoScenario
    /\ acc = [t \in Threads |-> NoAccess]
    /\ gate = NoGate

\* No lifecycle method has been called directly yet.
NoCall ==
    [seq |-> 0, op |-> "none", svc |-> "", err |-> "none", rt |-> 0, runs |-> 0,
     probes |-> 0]

\* The default poll interval of waitForServiceHealth, in seconds.
defaultInterval == 5

\* The interval waitForServiceHealth polls at: the declared one when it
\* parses as a duration, whatever its sign, else the default.
pollInterval(declared) ==
    IF declared.text = "duration" THEN declared.d ELSE defaultInterval

Undeclared == [declared |-> FALSE, deps |-> <<>>, health |-> "none", interval |-> NoInterval]

\* A unit with its depends_on list, its Health (none, without endpoint,
\* http) and the Interval of its Health.
UnitEvery(d, h, iv) == [declared |-> TRUE, deps |-> d, health |-> h, interval |-> iv]

Unit(d, h) == UnitEvery(d, h, NoInterval)

DeclOptions == {Undeclared} \cup {Unit(d, "none") : d \in SeqsUpTo(Names, MaxDeps)}

Manifests == {f \in [Names -> DeclOptions] : SumLen(f, Names) <= MaxEdges}

\* The state before the command runs, given the containers already there.
InitRuntime(existing) ==
    /\ order = <<>>
    /\ resolveErr = NoError
    /\ network = FALSE
    /\ oServices = [n \in Names |-> NoService]
    /\ levels = <<>>
    /\ levelNum = 0
    /\ startedServices = <<>>
    /\ gpc = [n \in Names |-> "none"]
    /\ errChan = <<>>
    /\ runErr = NoRunError
    /\ rbQueue = <<>>
    /\ containers = existing
    /\ pre = existing
    /\ clock = 0
    /\ startLog = <<>>
    /\ stopLog = <<>>
    /\ cancelled = FALSE
    /\ lastCall = NoCall
    /\ InitExt

\* Resolver inputs: every manifest and request within the bounds.
InitResolve ==
    /\ decl \in Manifests
    /\ request \in SeqsUpTo(Names, MaxReq)
    /\ pc = "resolve"
    /\ InitRuntime([n \in Names |-> NoContainer])

\* Inputs of the up command: the ork.yml files over a, b, c with and
\* without readiness probes, a probe whose interval is "0s", a cycle, a
\* unit that depends on itself, a name that is not declared, a file
\* without services, and a container left from an earlier run.
RunManifests ==
    {[n \in Names |-> Undeclared]} \cup
    {[n \in Names |-> IF n = "a" THEN ua ELSE IF n = "b" THEN ub ELSE uc] :
        ua \in {Unit(d, h) : d \in {<<>>, <<"b">>}, h \in {"none", "http"}} \cup
               {UnitEvery(d, "http", [text |-> "duration", d |-> 0]) :
                   d \in {<<>>, <<"b">>}},
        ub \in {Undeclared} \cup
               {Unit(d, h) : d \in {<<>>, <<"a">>}, h \in {"none", "noendpoint"}},
        uc \in {Unit(d, h) : d \in {<<>>, <<"a">>, <<"a", "b">>, <<"c">>},
                              h \in {"none", "http"}}}

RunRequests == {<<"a">>, <<"c">>, <<"a", "b">>, <<"c", "b">>}

ExistingContainers ==
    {[n \in Names |-> IF n = "a" THEN c ELSE NoContainer] :
        c \in {NoContainer, [status |-> "up", id |-> 1], [status |-> "exited", id |-> 1]}}

Init ==
    /\ decl \in RunManifests
    /\ request \in RunRequests
    /\ pc = "load"
    /\ \E existing \in ExistingContainers : InitRuntime(existing)

\* Inputs of buildDependencyLevels called on its own: every manifest and
\* every duplicate-free list of names within the bounds.
InitLevels ==
    /\ decl \in Manifests
    /\ request = <<>>
    /\ pc = "levels"
    /\ order \in {l \in SeqsUpTo(Names, MaxList) : NoDup(l)}
    /\ resolveErr = NoError
    /\ network = FALSE
    /\ oServices = [n \in Names |-> NoService]
    /\ levels = <<>>
    /\ levelNum = 0
    /\ startedServices = <<>>
    /\ gpc = [n \in Names |-> "none"]
    /\ errChan = <<>>
    /\ runErr = NoRunError
    /\ rbQueue = <<>>
    /\ containers = [n \in Names |-> NoContainer]
    /\ pre = [n \in Names |-> NoContainer]
    /\ clock = 0
    /\ startLog = <<>>
    /\ stopLog = <<>>
    /\ cancelled = FALSE
    /\ lastCall = NoCall
    /\ InitExt

\* ------------------------------------------------------------------------
\* The up command
\* ------------------------------------------------------------------------

\* validateDependencies: the first entry of depends_on that is the unit
\* itself or is not a key of the services map.
RECURSIVE validateDependencies(_, _, _)
validateDependencies(serviceName, deps, allServices) ==
    IF deps = <<>> THEN "none"
    ELSE IF Head(deps) = serviceName THEN "selfDependency"
    ELSE IF ~allServices[Head(deps)].declared THEN "unknownDependency"
    ELSE validateDependencies(serviceName, Tail(deps), allServices)

\* validateService for the units in map iteration order: the first one
\* that fails ends the loop.
RECURSIVE validateEach(_, _)
validateEach(services, iterOrder) ==
    IF iterOrder = <<>> THEN NoRunError
    ELSE LET name == Head(iterOrder)
             e == validateDependencies(name, services[name].deps, services)
         IN  IF e # "none" THEN RunError("config", name, e)
             ELSE validateEach(services, Tail(iterOrder))

\* Config.Validate: a file without services is rejected, then every unit
\* is validated. The version, project, source, build and port fields of
\* the file are valid.
Validate(services, iterOrder) ==
    IF Declared(services) = {} THEN RunError("config", "", "noServices")
    ELSE validateEach(services, iterOrder)

\* runUp: loadAndValidateConfig. config.Load fails, or cfg.Validate rejects
\* the file, or the command goes on with the configuration.
LoadAndValidateConfig ==
    /\ pc = "load"
    /\ \/ /\ runErr' = RunError("config", "", "load")
          /\ pc' = "done"
       \/ \E iterOrder \in Perms(Declared(decl)) :
             LET e == Validate(decl, iterOrder)
             IN  /\ runErr' = e
                 /\ pc' = IF e = NoRunError THEN "names" ELSE "done"
    /\ UNCHANGED <<extVars, resolveVars, callVars, network, oServices, levels, levelNum,
                   startedServices, gpc, errChan, rbQueue, containers, pre, clock,
                   startLog, stopLog>>

\* validateServiceNames: the first requested name that is not a key of
\* cfg.Services.
RECURSIVE validateServiceNames(_, _)
validateServiceNames(serviceNames, services) ==
    IF serviceNames = <<>> THEN NoRunError
    ELSE IF ~services[Head(serviceNames)].declared
         THEN RunError("serviceNotFound", Head(serviceNames), "none")
         ELSE validateServiceNames(Tail(serviceNames), services)

\* runUp: validateServiceNames(serviceNames, cfg)
ValidateServiceNames ==
    /\ pc = "names"
    /\ runErr' = validateServiceNames(request, decl)
    /\ pc' = IF runErr' = NoRunError THEN "docker" ELSE "done"
    /\ UNCHANGED <<extVars, resolveVars, callVars, network, oServices, levels, levelNum,
                   startedServices, gpc, errChan, rbQueue, containers, pre, clock,
                   startLog, stopLog>>

\* runUp: createDockerClient; docker.NewClient succeeds or fails.
CreateDockerClient ==
    /\ pc = "docker"
    /\ \/ /\ pc' = "resolve"
          /\ UNCHANGED runErr
       \/ /\ runErr' = RunError("docker", "", "docker")
          /\ pc' = "done"
    /\ UNCHANGED <<extVars, resolveVars, callVars, network, oServices, levels, levelNum,
                   startedServices, gpc, errChan, rbQueue, containers, pre, clock,
                   startLog, stopLog>>

\* Variant: the project network is created before the request is resolved.
Resolve_NetworkFirst ==
    /\ pc = "resolve"
    /\ \E iterOrder \in Perms(Declared(decl)) :
          LET r == ResolveDependencies(decl, request, iterOrder)
          IN  /\ order' = r.order
              /\ resolveErr' = r.err
              /\ pc' = IF r.ok THEN "resolved" ELSE "done"
    /\ network' = TRUE
    /\ UNCHANGED <<extVars, decl, request, callVars, oServices, levels, levelNum,
                   startedServices, gpc, errChan, runErr, rbQueue, containers, pre,
                   clock, startLog, stopLog>>

\* runUp: service.ResolveDependencies(cfg.Services, serviceNames)
Resolve ==
    /\ pc = "resolve"
    /\ \E iterOrder \in Perms(Declared(decl)) :
          LET r == ResolveDependencies(decl, request, iterOrder)
          IN  /\ order' = r.order
              /\ resolveErr' = r.err
              /\ pc' = IF r.ok THEN "resolved" ELSE "done"
    /\ UNCHANGED <<extVars, decl, request, runVars, callVars>>

\* runUp: dockerClient.CreateNetwork(ctx, cfg.Project)
CreateNetwork ==
    /\ pc = "resolved"
    /\ \/ /\ network' = TRUE
          /\ pc' = "orchestrate"
          /\ UNCHANGED runErr
       \/ /\ network' = network
          /\ runErr' = RunError("network", "", "network")
          /\ pc' = "done"
    /\ UNCHANGED <<extVars, resolveVars, callVars, oServices, levels, levelNum,
                   startedServices, gpc, errChan, rbQueue, containers, pre, clock,
                   startLog, stopLog>>

\* runUp: NewOrchestrator, AddService for every ordered name, then the
\* head of StartServicesInOrder: buildDependencyLevels.
StartServicesInOrder ==
    /\ pc = "orchestrate"
    /\ oServices' = [n \in Names |-> IF n \in Range(order) THEN New ELSE NoService]
    /\ levels' = buildDependencyLevels(order, decl)
    /\ levelNum' = 1
    /\ pc' = "level"
    /\ UNCHANGED <<extVars, resolveVars, callVars, network, startedServices, gpc,
                   errChan, runErr, rbQueue, containers, pre, clock, startLog, stopLog>>

\* The units of the level being processed.
levelServices == IF levelNum \in DOMAIN levels THEN levels[levelNum] ELSE <<>>

\* Variant: only the first unit of the level gets a goroutine.
StartLevel_FirstOnly ==
    /\ pc = "level"
    /\ IF levelNum > Len(levels)
       THEN /\ pc' = "done"
            /\ UNCHANGED <<gpc, errChan>>
       ELSE /\ gpc' = [n \in Names |->
                         IF levelServices # <<>> /\ n = Head(levelServices)
                         THEN "spawned" ELSE gpc[n]]
            /\ errChan' = <<>>
            /\ pc' = "joinStart"
    /\ UNCHANGED <<extVars, resolveVars, callVars, network, oServices, levels, levelNum,
                   startedServices, runErr, rbQueue, containers, pre, clock, startLog,
                   stopLog>>

\* The level loop: past the last level the run returns nil; otherwise
\* startServicesInParallel launches one goroutine per unit of the level.
StartLevel ==
    /\ pc = "level"
    /\ IF levelNum > Len(levels)
       THEN /\ pc' = "done"
            /\ UNCHANGED <<gpc, errChan>>
       ELSE /\ gpc' = [n \in Names |-> IF n \in Range(levelServices) THEN "spawned" ELSE gpc[n]]
            /\ errChan' = <<>>
            /\ pc' = "joinStart"
    /\ UNCHANGED <<extVars, resolveVars, callVars, network, oServices, levels, levelNum,
                   startedServices, runErr, rbQueue, containers, pre, clock, startLog,
                   stopLog>>

\* A launch goroutine looks its unit up and calls Start, which takes the
\* unit's lock, rejects a Running unit and otherwise moves to Starting.
GoStartBegin(n) ==
    /\ pc = "joinStart"
    /\ gpc[n] = "spawned"
    /\ IF oServices[n] = NoService
       THEN /\ errChan' = Append(errChan, RunError("notInOrchestrator", n, "none"))
            /\ gpc' = [gpc EXCEPT ![n] = "done"]
            /\ UNCHANGED <<oServices, startLog>>
       ELSE /\ startLog' = Append(startLog, n)
            /\ IF StartRejected(oServices[n])
               THEN /\ errChan' = Append(errChan, RunError("start", n, "already_running"))
                    /\ gpc' = [gpc EXCEPT ![n] = "done"]
                    /\ UNCHANGED oServices
               ELSE /\ oServices' = [oServices EXCEPT ![n] = StartBegin(@)]
                    /\ gpc' = [gpc EXCEPT ![n] = "starting"]
                    /\ UNCHANGED errChan
    /\ UNCHANGED <<pc, extVars, resolveVars, callVars, network, levels, levelNum,
                   startedServices, runErr, rbQueue, containers, pre, clock, stopLog>>

\* Variant: the error channel holds one error; a goroutine that finds it
\* full blocks in its send.
GoStartFinish_ChannelOfOne(n) ==
    /\ pc = "joinStart"
    /\ gpc[n] = "starting"
    /\ \E o \in StartOutcomesCtx(containers[n], cancelled) :
          LET r == StartFinish(oServices[n], containers[n], clock, o)
          IN  /\ oServices' = [oServices EXCEPT ![n] = r.svc]
              /\ containers' = [containers EXCEPT ![n] = r.container]
              /\ clock' = r.clock
              /\ IF r.err = "none"
                 THEN /\ gpc' = [gpc EXCEPT ![n] = "started"]
                      /\ UNCHANGED errChan
                 ELSE IF Len(errChan) >= 1
                 THEN /\ gpc' = [gpc EXCEPT ![n] = "blocked"]
                      /\ UNCHANGED errChan
                 ELSE /\ gpc' = [gpc EXCEPT ![n] = "done"]
                      /\ errChan' = Append(errChan, RunError("start", n, r.err))
    /\ UNCHANGED <<pc, extVars, resolveVars, callVars, network, levels, levelNum,
                   startedServices, runErr, rbQueue, pre, startLog, stopLog>>

\* Start runs to its end against the runtime; on failure the goroutine
\* sends the error and finishes.
GoStartFinish(n) ==
    /\ pc = "joinStart"
    /\ gpc[n] = "starting"
    /\ \E o \in StartOutcomesCtx(containers[n], cancelled) :
          LET r == StartFinish(oServices[n], containers[n], clock, o)
          IN  /\ oServices' = [oServices EXCEPT ![n] = r.svc]
              /\ containers' = [containers EXCEPT ![n] = r.container]
              /\ clock' = r.clock
              /\ IF r.err = "none"
                 THEN /\ gpc' = [gpc EXCEPT ![n] = "started"]
                      /\ UNCHANGED errChan
                 ELSE /\ gpc' = [gpc EXCEPT ![n] = "done"]
                      /\ errChan' = Append(errChan, RunError("start", n, r.err))
    /\ UNCHANGED <<pc, extVars, resolveVars, callVars, network, levels, levelNum,
                   startedServices, runErr, rbQueue, pre, startLog, stopLog>>

\* Variant: the append is not protected; it may overwrite the element
\* another goroutine has just appended.
GoAppend_LostUpdate(n) ==
    /\ pc = "joinStart"
    /\ gpc[n] = "started"
    /\ \/ startedServices' = Append(startedServices, n)
       \/ /\ startedServices # <<>>
          /\ startedServices' =
                Append(SubSeq(startedServices, 1, Len(startedServices) - 1), n)
    /\ gpc' = [gpc EXCEPT ![n] = "done"]
    /\ UNCHANGED <<pc, extVars, resolveVars, callVars, network, oServices, levels,
                   levelNum, errChan, runErr, rbQueue, containers, pre, clock, startLog,
                   stopLog>>

\* After a successful Start the goroutine appends its unit to the shared
\* list under the mutex.
GoAppend(n) ==
    /\ pc = "joinStart"
    /\ gpc[n] = "started"
    /\ startedServices' = Append(startedServices, n)
    /\ gpc' = [gpc EXCEPT ![n] = "done"]
    /\ UNCHANGED <<pc, extVars, resolveVars, callVars, network, oServices, levels,
                   levelNum, errChan, runErr, rbQueue, containers, pre, clock, startLog,
                   stopLog>>

\* Variant: the loop runs from the first element up.
rollbackOrder_Forward(started) == started

\* Variant: the loop starts one below the last element.
rollbackOrder_SkipLast(started) ==
    IF started = <<>> THEN <<>> ELSE Reverse(SubSeq(started, 1, Len(started) - 1))

\* The loop of rollbackStartedServices: from the last element of the list
\* down to the first.
rollbackOrder(started) == Reverse(started)

\* Variant: the result of startServicesInParallel is dropped.
JoinStart_IgnoreError ==
    /\ pc = "joinStart"
    /\ \A n \in Range(levelServices) : gpc[n] = "done"
    /\ pc' = "health"
    /\ UNCHANGED <<extVars, resolveVars, runVars, callVars>>

\* Variant: the first error ends the join without waiting for the other
\* goroutines of the level.
JoinStart_FailFast ==
    /\ pc = "joinStart"
    /\ errChan # <<>> \/ \A n \in Range(levelServices) : gpc[n] = "done"
    /\ IF errChan # <<>>
       THEN /\ runErr' = Head(errChan)
            /\ rbQueue' = rollbackOrder(startedServices)
            /\ pc' = "rollback"
       ELSE /\ pc' = "health"
            /\ UNCHANGED <<runErr, rbQueue>>
    /\ UNCHANGED <<extVars, resolveVars, callVars, network, oServices, levels, levelNum,
                   startedServices, gpc, errChan, containers, pre, clock, startLog,
                   stopLog>>

\* wg.Wait of startServicesInParallel, then the first error of the channel
\* (rollback, return) or on to the readiness gate.
JoinStart ==
    /\ pc = "joinStart"
    /\ \A n \in Range(levelServices) : gpc[n] = "done"
    /\ IF errChan # <<>>
       THEN /\ runErr' = Head(errChan)
            /\ rbQueue' = rollbackOrder(startedServices)
            /\ pc' = "rollback"
       ELSE /\ pc' = "health"
            /\ UNCHANGED <<runErr, rbQueue>>
    /\ UNCHANGED <<extVars, resolveVars, callVars, network, oServices, levels, levelNum,
                   startedServices, gpc, errChan, containers, pre, clock, startLog,
                   stopLog>>

\* The units of the level waitForHealthy waits for.
probed == {n \in Range(levelServices) : oServices[n] # NoService /\ decl[n].health # "none"}

\* Variant: the readiness gate is skipped.
WaitForHealthy_NoGate ==
    /\ pc = "health"
    /\ levelNum' = levelNum + 1
    /\ pc' = "level"
    /\ UNCHANGED <<extVars, resolveVars, callVars, network, oServices, levels,
                   startedServices, runErr, rbQueue, gpc, errChan, containers, pre,
                   clock, startLog, stopLog>>

\* waitForHealthy: nothing to wait for, or one goroutine per probed unit.
WaitForHealthy ==
    /\ pc = "health"
    /\ IF probed = {}
       THEN /\ levelNum' = levelNum + 1
            /\ pc' = "level"
            /\ UNCHANGED <<gpc, errChan>>
       ELSE /\ gpc' = [n \in Names |-> IF n \in probed THEN "waiting" ELSE gpc[n]]
            /\ errChan' = <<>>
            /\ pc' = "joinHealth"
            /\ UNCHANGED levelNum
    /\ UNCHANGED <<extVars, resolveVars, callVars, network, oServices, levels,
                   startedServices, runErr, rbQueue, containers, pre, clock, startLog,
                   stopLog>>

\* waitForServiceHealth, one tick: the deadline has passed, or CheckHealth
\* runs and either ends the wait or leaves the unit waiting.
HealthTick(n) ==
    /\ pc = "joinHealth"
    /\ gpc[n] = "waiting"
    /\ pollInterval(decl[n].interval) > 0
    /\ \/ /\ errChan' = Append(errChan, RunError("health", n, "timeout"))
          /\ gpc' = [gpc EXCEPT ![n] = "healthDone"]
          /\ UNCHANGED oServices
       \/ \E o \in CheckHealthOutcomesCtx(oServices[n], decl[n].health, cancelled) :
             LET r == CheckHealth(oServices[n], o)
             IN  /\ oServices' = [oServices EXCEPT ![n] = r.svc]
                 /\ gpc' = [gpc EXCEPT ![n] = IF r.err = "none" THEN "healthDone" ELSE @]
                 /\ UNCHANGED errChan
    /\ UNCHANGED <<pc, extVars, resolveVars, callVars, network, levels, levelNum,
                   startedServices, runErr, rbQueue, containers, pre, clock, startLog,
                   stopLog>>

\* waitForServiceHealth, its head: time.NewTicker panics on an interval
\* that is not positive; nothing recovers and the process ends.
HealthPanic(n) ==
    /\ pc = "joinHealth"
    /\ gpc[n] = "waiting"
    /\ pollInterval(decl[n].interval) <= 0
    /\ pc' = "panic"
    /\ UNCHANGED <<extVars, resolveVars, runVars, callVars>>

\* Variant: the result of waitForHealthy is dropped.
JoinHealth_IgnoreError ==
    /\ pc = "joinHealth"
    /\ \A n \in probed : gpc[n] = "healthDone"
    /\ levelNum' = levelNum + 1
    /\ pc' = "level"
    /\ UNCHANGED <<extVars, resolveVars, callVars, network, oServices, levels,
                   startedServices, runErr, rbQueue, gpc, errChan, containers, pre,
                   clock, startLog, stopLog>>

\* wg.Wait of waitForHealthy, then the first error of the channel
\* (rollback, return) or on to the next level.
JoinHealth ==
    /\ pc = "joinHealth"
    /\ \A n \in probed : gpc[n] = "healthDone"
    /\ IF errChan # <<>>
       THEN /\ runErr' = Head(errChan)
            /\ rbQueue' = rollbackOrder(startedServices)
            /\ pc' = "rollback"
            /\ UNCHANGED levelNum
       ELSE /\ levelNum' = levelNum + 1
            /\ pc' = "level"
            /\ UNCHANGED <<runErr, rbQueue>>
    /\ UNCHANGED <<extVars, resolveVars, callVars, network, oServices, levels,
                   startedServices, gpc, errChan, containers, pre, clock, startLog,
                   stopLog>>

\* Variant: a Stop failure becomes the error of the run.
Rollback_ReportStopError ==
    /\ pc = "rollback"
    /\ IF rbQueue = <<>>
       THEN /\ pc' = "done"
            /\ UNCHANGED <<oServices, containers, clock, stopLog, rbQueue, runErr>>
       ELSE LET n == Head(rbQueue)
            IN  \E o \in StopOutcomesCtx(oServices[n], containers[n], cancelled) :
                   LET r == Stop(oServices[n], containers[n], clock, o)
                   IN  /\ oServices' = [oServices EXCEPT ![n] = r.svc]
                       /\ containers' = [containers EXCEPT ![n] = r.container]
                       /\ clock' = r.clock
                       /\ stopLog' = Append(stopLog, n)
                       /\ rbQueue' = Tail(rbQueue)
                       /\ runErr' = IF r.err = "none" THEN runErr
                                    ELSE RunError("stop", n, r.err)
                       /\ UNCHANGED pc
    /\ UNCHANGED <<extVars, resolveVars, callVars, network, levels, levelNum,
                   startedServices, gpc, errChan, pre, startLog>>

\* Variant: the loop ends at the first Stop failure.
Rollback_AbortOnFailure ==
    /\ pc = "rollback"
    /\ IF rbQueue = <<>>
       THEN /\ pc' = "done"
            /\ UNCHANGED <<oServices, containers, clock, stopLog, rbQueue>>
       ELSE LET n == Head(rbQueue)
            IN  \E o \in StopOutcomesCtx(oServices[n], containers[n], cancelled) :
                   LET r == Stop(oServices[n], containers[n], clock, o)
                   IN  /\ oServices' = [oServices EXCEPT ![n] = r.svc]
                       /\ containers' = [containers EXCEPT ![n] = r.container]
                       /\ clock' = r.clock
                       /\ stopLog' = Append(stopLog, n)
                       /\ rbQueue' = IF r.err = "none" THEN Tail(rbQueue) ELSE <<>>
                       /\ UNCHANGED pc
    /\ UNCHANGED <<extVars, resolveVars, callVars, network, levels, levelNum,
                   startedServices, gpc, errChan, runErr, pre, startLog>>

\* rollbackStartedServices, one iteration: Stop on the next unit, whatever
\* its result; after the last one StartServicesInOrder returns the error.
Rollback ==
    /\ pc = "rollback"
    /\ IF rbQueue = <<>>
       THEN /\ pc' = "done"
            /\ UNCHANGED <<oServices, containers, clock, stopLog, rbQueue>>
       ELSE LET n == Head(rbQueue)
            IN  \E o \in StopOutcomesCtx(oServices[n], containers[n], cancelled) :
                   LET r == Stop(oServices[n], containers[n], clock, o)
                   IN  /\ oServices' = [oServices EXCEPT ![n] = r.svc]
                       /\ containers' = [containers EXCEPT ![n] = r.container]
                       /\ clock' = r.clock
                       /\ stopLog' = Append(stopLog, n)
                       /\ rbQueue' = Tail(rbQueue)
                       /\ UNCHANGED pc
    /\ UNCHANGED <<extVars, resolveVars, callVars, network, levels, levelNum,
                   startedServices, gpc, errChan, runErr, pre, startLog>>

Next ==
    \/ LoadAndValidateConfig
    \/ ValidateServiceNames
    \/ CreateDockerClient
    \/ Resolve
    \/ CreateNetwork
    \/ StartServicesInOrder
    \/ StartLevel
    \/ \E n \in Names : GoStartBegin(n)
    \/ \E n \in Names : GoStartFinish(n)
    \/ \E n \in Names : GoAppend(n)
    \/ JoinStart
    \/ WaitForHealthy
    \/ \E n \in Names : HealthTick(n)
    \/ \E n \in Names : HealthPanic(n)
    \/ JoinHealth
    \/ Rollback

Spec == Init /\ [][Next]_vars

\* A tick of waitForServiceHealth that ends the wait: the probe succeeded
\* or the deadline has passed.
HealthTickEnds(n) == HealthTick(n) /\ gpc'[n] = "healthDone"

\* The steps that take StartServicesInOrder forward once the levels are
\* built: every step but a tick that leaves its unit waiting.
NextProgress ==
    \/ StartLevel
    \/ \E n \in Names : GoStartBegin(n)
    \/ \E n \in Names : GoStartFinish(n)
    \/ \E n \in Names : GoAppend(n)
    \/ JoinStart
    \/ WaitForHealthy
    \/ \E n \in Names : HealthTickEnds(n)
    \/ \E n \in Names : HealthPanic(n)
    \/ JoinHealth
    \/ Rollback

\* The run when every runtime call and every probe returns, every
\* goroutine is scheduled, and the 30-second deadline of a wait passes.
SpecLive == Spec /\ WF_vars(NextProgress)

\* The caller cancels ctx while StartServicesInOrder is running.
Cancel ==
    /\ pc \in {"level", "joinStart", "health", "joinHealth"}
    /\ ~cancelled
    /\ cancelled' = TRUE
    /\ UNCHANGED <<pc, extVars, resolveVars, runVars, lastCall>>

\* waitForServiceHealth: the select takes the ctx.Done() case and returns
\* ctx.Err().
HealthCancelled(n) ==
    /\ pc = "joinHealth"
    /\ gpc[n] = "waiting"
    /\ cancelled
    /\ pollInterval(decl[n].interval) > 0
    /\ errChan' = Append(errChan, RunError("cancelled", n, "ctx"))
    /\ gpc' = [gpc EXCEPT ![n] = "healthDone"]
    /\ UNCHANGED <<pc, extVars, resolveVars, callVars, network, oServices, levels,
                   levelNum, startedServices, runErr, rbQueue, containers, pre, clock,
                   startLog, stopLog>>

NextCancel ==
    \/ Next
    \/ Cancel
    \/ \E n \in Names : HealthCancelled(n)

\* A run whose ctx the caller may cancel.
SpecCancel == Init /\ [][NextCancel]_vars

\* One unit on which Start, Stop and CheckHealth are called directly, in
\* any order; each call holds the unit's lock from entry to return.
InitLifecycle ==
    /\ \E h \in {"none", "noendpoint", "http"} :
          decl = [n \in Names |-> IF n = "a" THEN Unit(<<>>, h) ELSE Undeclared]
    /\ request = <<"a">>
    /\ pc = "lifecycle"
    /\ order = <<"a">>
    /\ resolveErr = NoError
    /\ network = TRUE
    /\ oServices = [n \in Names |-> IF n = "a" THEN New ELSE NoService]
    /\ levels = <<>>
    /\ levelNum = 0
    /\ startedServices = <<>>
    /\ gpc = [n \in Names |-> "none"]
    /\ errChan = <<>>
    /\ runErr = NoRunError
    /\ rbQueue = <<>>
    /\ containers \in ExistingContainers
    /\ pre = containers
    /\ clock = 0
    /\ startLog = <<>>
    /\ stopLog = <<>>
    /\ cancelled = FALSE
    /\ lastCall = NoCall
    /\ InitExt

Returned(op, n, err, rt, runs) ==
    [seq |-> lastCall.seq + 1, op |-> op, svc |-> n, err |-> err, rt |-> rt, runs |-> runs,
     probes |-> 0]

\* svc.Start(ctx, client, networkID)
SvcStart(n) ==
    /\ pc = "lifecycle"
    /\ lastCall.seq < MaxCalls
    /\ oServices[n] # NoService
    /\ IF StartRejected(oServices[n])
       THEN /\ lastCall' = Returned("start", n, "already_running", 0, 0)
            /\ UNCHANGED <<oServices, containers, clock>>
       ELSE \E o \in StartOutcomes(containers[n]) :
               LET r == StartFinish(StartBegin(oServices[n]), containers[n], clock, o)
               IN  /\ oServices' = [oServices EXCEPT ![n] = r.svc]
                   /\ containers' = [containers EXCEPT ![n] = r.container]
                   /\ clock' = r.clock
                   /\ lastCall' = Returned("start", n, r.err,
                                           StartRuntimeCalls(containers[n], o), StartRuns(o))
    /\ UNCHANGED <<pc, extVars, resolveVars, cancelled, network, levels, levelNum,
                   startedServices, gpc, errChan, runErr, rbQueue, pre, startLog,
                   stopLog>>

\* svc.Stop(ctx, client)
SvcStop(n) ==
    /\ pc = "lifecycle"
    /\ lastCall.seq < MaxCalls
    /\ oServices[n] # NoService
    /\ \E o \in StopOutcomes(oServices[n], containers[n]) :
          LET r == Stop(oServices[n], containers[n], clock, o)
          IN  /\ oServices' = [oServices EXCEPT ![n] = r.svc]
              /\ containers' = [containers EXCEPT ![n] = r.container]
              /\ clock' = r.clock
              /\ lastCall' = Returned("stop", n, r.err,
                                      IF o \in {"not_running", "no_container_id"}
                                      THEN 0 ELSE 1, 0)
    /\ UNCHANGED <<pc, extVars, resolveVars, cancelled, network, levels, levelNum,
                   startedServices, gpc, errChan, runErr, rbQueue, pre, startLog,
                   stopLog>>

\* svc.CheckHealth(ctx)
SvcCheckHealth(n) ==
    /\ pc = "lifecycle"
    /\ lastCall.seq < MaxCalls
    /\ oServices[n] # NoService
    /\ \E o \in CheckHealthOutcomes(oServices[n], decl[n].health) :
          LET r == CheckHealth(oServices[n], o)
          IN  /\ oServices' = [oServices EXCEPT ![n] = r.svc]
              /\ lastCall' = [Returned("checkHealth", n, r.err, 0, 0)
                                  EXCEPT !.probes = CheckHealthProbes(o)]
    /\ UNCHANGED <<pc, extVars, resolveVars, cancelled, network, levels, levelNum,
                   startedServices, gpc, errChan, runErr, rbQueue, containers, pre,
                   clock, startLog, stopLog>>

NextLifecycle ==
    \/ \E n \in Names : SvcStart(n)
    \/ \E n \in Names : SvcStop(n)
    \/ \E n \in Names : SvcCheckHealth(n)

SpecLifecycle == InitLifecycle /\ [][NextLifecycle]_vars

\* ------------------------------------------------------------------------
\* The readiness wait of one unit, with its clock
\* ------------------------------------------------------------------------

\* Durations are counted in seconds: maxWait is 30 seconds, the default
\* timeout of one HTTP attempt 3 seconds, the default number of attempts
\* 3, the pause between attempts 1 second.
maxWait == 30

defaultTimeout == 3

defaultRetries == 3

retrySleep == 1

\* Config.Health.Interval: empty, not a duration, or a duration.
Intervals ==
    {NoInterval, [text |-> "bad", d |-> 0]} \cup
    {[text |-> "duration", d |-> i] : i \in -1 .. MaxInterval}

\* Config.Health.Timeout: empty, not a duration, or a duration.
Timeouts ==
    {NoInterval, [text |-> "bad", d |-> 0]} \cup
    {[text |-> "duration", d |-> i] : i \in -1 .. MaxTimeout}

\* Config.Health.Retries: not set (0), negative, or a count.
Retries == {-1, 0, 1}

\* The endpoint never answers: later than any time the wait can reach.
NeverReady == 4 * maxWait

\* The times from which the unit's endpoint answers 2xx.
ReadyTimes == (0 .. (maxWait + 1)) \cup {NeverReady}

\* The Timeout of the http.Client of performHTTPHealthCheck: the declared
\* one when it parses as a duration, else the default. A Timeout that is
\* not positive means no timeout.
probeTimeout(declared) ==
    IF declared.text = "duration" THEN declared.d ELSE defaultTimeout

\* The attempts of performHTTPHealthCheck: the declared count, 3 when it
\* is zero.
probeRetries(declared) == IF declared = 0 THEN defaultRetries ELSE declared

\* A unit just started by a successful Start.
Started == StartFinish(StartBegin(New), NoContainer, 0, "ok")

\* waitForServiceHealth is entered for a Running unit that declares a
\* probe. The unit's endpoint answers 2xx to a request made at readyAt or
\* later; an earlier request is refused at once or, when the endpoint
\* hangs, is held until the client's timeout.
InitGate ==
    /\ \E h \in {"http", "noendpoint"} :
          /\ \E iv \in Intervals :
                decl = [n \in Names |->
                          IF n = "a" THEN UnitEvery(<<>>, h, iv) ELSE Undeclared]
          /\ gate \in {[NoGate EXCEPT !.timeout = to, !.retries = rt, !.readyAt = r,
                                      !.hangs = hg] :
                          to \in IF h = "http" THEN Timeouts ELSE {NoInterval},
                          rt \in IF h = "http" THEN Retries ELSE {0},
                          r \in IF h = "http" THEN ReadyTimes ELSE {0},
                          hg \in IF h = "http" THEN BOOLEAN ELSE {FALSE}}
    /\ request = <<"a">>
    /\ pc = "gate"
    /\ order = <<"a">>
    /\ resolveErr = NoError
    /\ network = TRUE
    /\ oServices = [n \in Names |-> IF n = "a" THEN Started.svc ELSE NoService]
    /\ levels = <<<<"a">>>>
    /\ levelNum = 1
    /\ startedServices = <<"a">>
    /\ gpc = [n \in Names |-> "none"]
    /\ errChan = <<>>
    /\ runErr = NoRunError
    /\ rbQueue = <<>>
    /\ containers = [n \in Names |-> IF n = "a" THEN Started.container ELSE NoContainer]
    /\ pre = [n \in Names |-> NoContainer]
    /\ clock = Started.clock
    /\ startLog = <<"a">>
    /\ stopLog = <<>>
    /\ cancelled = FALSE
    /\ lastCall = NoCall
    /\ mu = NoLock
    /\ tpc = [t \in Threads |-> Idle]
    /\ seen = [t \in Threads |-> NoService]
    /\ committed = NoService
    /\ scenario = NoScenario
    /\ acc = [t \in Threads |-> NoAccess]

\* The head of waitForServiceHealth: interval, deadline, time.NewTicker,
\* which panics on an interval that is not positive.
GateBegin ==
    /\ pc = "gate"
    /\ LET iv == pollInterval(decl["a"].interval)
       IN  IF iv <= 0
           THEN /\ gate' = [gate EXCEPT !.ticker = iv, !.result = "panic"]
                /\ pc' = "panic"
           ELSE /\ gate' = [gate EXCEPT !.ticker = iv]
                /\ pc' = "gateWait"
    /\ UNCHANGED <<resolveVars, runVars, callVars, threadVars, acc>>

\* The ticker fires at the multiples of the interval and its channel holds
\* one tick: a tick that fired since the last receive is waiting in it.
TickPending(g) == (g.now \div g.ticker) * g.ticker > g.lastRecv

\* The first time the ticker fires after now.
NextTick(g) == ((g.now \div g.ticker) + 1) * g.ticker

\* When the select receives from ticker.C: at once when a tick is waiting,
\* else when the next one fires.
RecvTime(g) == IF TickPending(g) THEN g.now ELSE NextTick(g)

\* The ticker case of the select. Past the deadline the wait fails;
\* otherwise CheckHealth is entered: without an endpoint the unit is
\* healthy and the wait ends, with one performHTTPHealthCheck begins its
\* loop (which makes no attempt when the declared count is negative).
\* With ctx cancelled the case can be taken only when a tick is waiting.
GateTick ==
    /\ pc = "gateWait"
    /\ cancelled => TickPending(gate)
    /\ LET t == RecvTime(gate)
           g == [gate EXCEPT !.now = t, !.lastRecv = t]
       IN  IF t >= maxWait
           THEN /\ gate' = [g EXCEPT !.result = "timeout"]
                /\ pc' = "gateDone"
                /\ UNCHANGED oServices
           ELSE IF CheckHealthOutcomes(oServices["a"], decl["a"].health) = {"no_probe"}
           THEN /\ oServices' = [oServices EXCEPT
                                    !["a"] = CheckHealth(oServices["a"], "no_probe").svc]
                /\ gate' = [g EXCEPT !.result = "healthy"]
                /\ pc' = "gateDone"
           ELSE IF probeRetries(gate.retries) < 1
           THEN /\ oServices' = [oServices EXCEPT
                                    !["a"] = CheckHealth(oServices["a"], "probe_fail").svc]
                /\ gate' = [g EXCEPT !.probes = @ + 1]
                /\ pc' = "gateWait"
           ELSE /\ gate' = [g EXCEPT !.probes = @ + 1, !.attempt = 1]
                /\ pc' = "gateProbe"
                /\ UNCHANGED oServices
    /\ UNCHANGED <<resolveVars, callVars, threadVars, acc, network, levels, levelNum,
                   startedServices, gpc, errChan, runErr, rbQueue, containers, pre,
                   clock, startLog, stopLog>>

\* performHTTPHealthCheck after an attempt that failed at time t: a pause
\* and the next attempt, or after the last one the error, with which
\* CheckHealth marks the unit unhealthy and the wait goes back to its
\* select.
AttemptFailed(t) ==
    IF gate.attempt < probeRetries(gate.retries)
    THEN /\ gate' = [gate EXCEPT !.now = t + retrySleep, !.attempt = @ + 1]
         /\ pc' = "gateProbe"
         /\ UNCHANGED oServices
    ELSE /\ gate' = [gate EXCEPT !.now = t, !.attempt = 0]
         /\ oServices' = [oServices EXCEPT
                             !["a"] = CheckHealth(oServices["a"], "probe_fail").svc]
         /\ pc' = "gateWait"

\* One client.Do(req) of performHTTPHealthCheck. The request carries ctx:
\* once ctx is cancelled it fails at once. Otherwise a ready endpoint
\* answers 2xx, CheckHealth marks the unit healthy and the wait ends; an
\* endpoint that is not ready refuses the request or holds it.
GateAttempt ==
    /\ pc = "gateProbe"
    /\ IF cancelled THEN AttemptFailed(gate.now)
       ELSE IF gate.now >= gate.readyAt
       THEN /\ oServices' = [oServices EXCEPT
                                !["a"] = CheckHealth(oServices["a"], "probe_ok").svc]
            /\ gate' = [gate EXCEPT !.attempt = 0, !.result = "healthy"]
            /\ pc' = "gateDone"
       ELSE IF gate.hangs
       THEN /\ pc' = "gateInflight"
            /\ UNCHANGED <<gate, oServices>>
       ELSE AttemptFailed(gate.now)
    /\ UNCHANGED <<resolveVars, callVars, threadVars, acc, network, levels, levelNum,
                   startedServices, gpc, errChan, runErr, rbQueue, containers, pre,
                   clock, startLog, stopLog>>

\* The request held by the endpoint runs into the client's timeout, when
\* the client has one.
GateAttemptTimeout ==
    /\ pc = "gateInflight"
    /\ probeTimeout(gate.timeout) > 0
    /\ AttemptFailed(gate.now + probeTimeout(gate.timeout))
    /\ UNCHANGED <<resolveVars, callVars, threadVars, acc, network, levels, levelNum,
                   startedServices, gpc, errChan, runErr, rbQueue, containers, pre,
                   clock, startLog, stopLog>>

\* How long a held request can have lasted when ctx is cancelled: less
\* than the client's timeout; without one, any time up to maxWait is
\* followed.
HoldTimes(timeout) == 0 .. (IF timeout > 0 THEN timeout - 1 ELSE maxWait)

\* The caller cancels ctx: while the wait is in its select, at once or at
\* the moment the next tick fires; between two attempts of a probe; or
\* while a request is held, which then fails before its timeout.
GateCancel ==
    /\ ~cancelled
    /\ cancelled' = TRUE
    /\ \/ /\ pc = "gateWait"
          /\ \/ UNCHANGED gate
             \/ /\ ~TickPending(gate)
                /\ gate' = [gate EXCEPT !.now = NextTick(gate)]
          /\ UNCHANGED <<pc, oServices>>
       \/ /\ pc = "gateProbe"
          /\ UNCHANGED <<pc, gate, oServices>>
       \/ /\ pc = "gateInflight"
          /\ \E d \in HoldTimes(probeTimeout(gate.timeout)) : AttemptFailed(gate.now + d)
    /\ UNCHANGED <<resolveVars, lastCall, threadVars, acc, network, levels, levelNum,
                   startedServices, gpc, errChan, runErr, rbQueue, containers, pre,
                   clock, startLog, stopLog>>

\* The ctx.Done() case of the select.
GateCtxDone ==
    /\ pc = "gateWait"
    /\ cancelled
    /\ gate' = [gate EXCEPT !.result = "cancelled"]
    /\ pc' = "gateDone"
    /\ UNCHANGED <<resolveVars, runVars, callVars, threadVars, acc>>

NextGate ==
    \/ GateBegin
    \/ GateTick
    \/ GateAttempt
    \/ GateAttemptTimeout
    \/ GateCancel
    \/ GateCtxDone

SpecGate == InitGate /\ [][NextGate]_vars

\* ------------------------------------------------------------------------
\* Concurrent callers of one unit
\* ------------------------------------------------------------------------

\* The methods a caller may call on the unit.
Methods == {"start", "stop", "checkHealth", "get", "restart"}

\* Any method against a runtime that may fail, or Restart and Stop only
\* against a runtime that never fails.
Scenarios ==
    {[reliable |-> FALSE, methods |-> Methods],
     [reliable |-> TRUE, methods |-> {"restart", "stop"}]}

\* Two goroutines share one Service: a fresh one, or one that is Running.
InitThreads ==
    /\ \E h \in {"none", "http"} :
          decl = [n \in Names |-> IF n = "a" THEN Unit(<<>>, h) ELSE Undeclared]
    /\ request = <<"a">>
    /\ pc = "threads"
    /\ order = <<"a">>
    /\ resolveErr = NoError
    /\ network = TRUE
    /\ scenario \in Scenarios
    /\ \E u \in IF scenario.reliable
                 THEN {Started}
                 ELSE {Started, [svc |-> New, container |-> NoContainer, clock |-> 0]} :
          /\ oServices = [n \in Names |-> IF n = "a" THEN u.svc ELSE NoService]
          /\ containers = [n \in Names |-> IF n = "a" THEN u.container ELSE NoContainer]
          /\ clock = u.clock
          /\ committed = u.svc
    /\ levels = <<>>
    /\ levelNum = 0
    /\ startedServices = <<>>
    /\ gpc = [n \in Names |-> "none"]
    /\ errChan = <<>>
    /\ runErr = NoRunError
    /\ rbQueue = <<>>
    /\ pre = [n \in Names |-> NoContainer]
    /\ startLog = <<>>
    /\ stopLog = <<>>
    /\ cancelled = FALSE
    /\ lastCall = NoCall
    /\ mu = NoLock
    /\ tpc = [t \in Threads |-> Idle]
    /\ seen = [t \in Threads |-> NoService]
    /\ acc = [t \in Threads |-> NoAccess]
    /\ gate = NoGate

\* What no step of a caller changes.
notThreadVars ==
    <<pc, resolveVars, callVars, acc, gate, network, levels, levelNum, startedServices,
      gpc, errChan, runErr, rbQueue, pre, startLog, stopLog, scenario>>

\* The calls made so far.
RECURSIVE TotalCalls(_)
TotalCalls(T) ==
    IF T = {} THEN 0
    ELSE LET t == CHOOSE x \in T : TRUE IN tpc[t].calls + TotalCalls(T \ {t})

\* A caller enters a method; Restart begins with GetState.
TCall(t, m) ==
    /\ pc = "threads"
    /\ tpc[t].at = "idle"
    /\ TotalCalls(Threads) < MaxThreadCalls
    /\ m \in scenario.methods
    /\ tpc' = [tpc EXCEPT ![t] =
                  [@ EXCEPT !.outer = IF m = "restart" THEN "restart" ELSE "none",
                            !.m = IF m = "restart" THEN "get" ELSE m,
                            !.at = "call",
                            !.calls = @ + 1]]
    /\ UNCHANGED <<notThreadVars, mu, seen, committed, oServices, containers, clock>>

\* s.mu.Lock()
CanLock(m) == m.w = "" /\ m.r = {}

TLock(t) ==
    /\ pc = "threads"
    /\ tpc[t].at = "call"
    /\ tpc[t].m \in {"start", "stop", "checkHealth"}
    /\ CanLock(mu)
    /\ mu' = [mu EXCEPT !.w = t]
    /\ tpc' = [tpc EXCEPT ![t].at = "locked"]
    /\ UNCHANGED <<notThreadVars, seen, committed, oServices, containers, clock>>

\* s.mu.RLock()
\* Variant: a getter does not wait for the writer.
CanRLock_NoWait(m) == TRUE

CanRLock(m) == m.w = ""

TRLock(t) ==
    /\ pc = "threads"
    /\ tpc[t].at = "call"
    /\ tpc[t].m = "get"
    /\ CanRLock(mu)
    /\ mu' = [mu EXCEPT !.r = @ \cup {t}]
    /\ tpc' = [tpc EXCEPT ![t].at = "locked"]
    /\ UNCHANGED <<notThreadVars, seen, committed, oServices, containers, clock>>

\* The caller's position after the method it was in returned err: back in
\* Restart, which goes on to Start after a successful Stop and otherwise
\* returns, or idle.
AfterReturn(p, err) ==
    IF p.outer = "restart"
    THEN IF p.m = "stop" /\ err = "none"
         THEN [p EXCEPT !.m = "start", !.at = "call"]
         ELSE [p EXCEPT !.outer = "none", !.m = "none", !.at = "idle",
                        !.op = "restart", !.err = err]
    ELSE [p EXCEPT !.m = "none", !.at = "idle", !.op = p.m, !.err = err]

\* A getter reads under the read lock and releases it. In Restart the
\* state read decides between Stop and Start.
TRead(t) ==
    /\ pc = "threads"
    /\ tpc[t].at = "locked"
    /\ tpc[t].m = "get"
    /\ seen' = [seen EXCEPT ![t] = oServices["a"]]
    /\ mu' = [mu EXCEPT !.r = @ \ {t}]
    /\ tpc' = [tpc EXCEPT ![t] =
                  IF @.outer = "restart"
                  THEN [@ EXCEPT !.m = IF oServices["a"].state = "running"
                                       THEN "stop" ELSE "start",
                                 !.at = "call"]
                  ELSE AfterReturn(@, "none")]
    /\ UNCHANGED <<notThreadVars, committed, oServices, containers, clock>>

\* Start under the lock, up to the first runtime call.
TStartBegin(t) ==
    /\ pc = "threads"
    /\ tpc[t].at = "locked"
    /\ tpc[t].m = "start"
    /\ IF StartRejected(oServices["a"])
       THEN /\ mu' = [mu EXCEPT !.w = ""]
            /\ tpc' = [tpc EXCEPT ![t] = AfterReturn(@, "already_running")]
            /\ UNCHANGED oServices
       ELSE /\ oServices' = [oServices EXCEPT !["a"] = StartBegin(@)]
            /\ tpc' = [tpc EXCEPT ![t].at = "mid"]
            /\ UNCHANGED mu
    /\ UNCHANGED <<notThreadVars, seen, committed, containers, clock>>

\* The answers of a runtime that never fails are fixed by the container.
ThreadStartOutcomes(c) ==
    IF scenario.reliable
    THEN (IF c.status = "up" THEN {"already_up"} ELSE {"ok"})
    ELSE StartOutcomes(c)

\* The rest of Start, then the deferred Unlock.
TStartFinish(t) ==
    /\ pc = "threads"
    /\ tpc[t].at = "mid"
    /\ tpc[t].m = "start"
    /\ \E o \in ThreadStartOutcomes(containers["a"]) :
          LET r == StartFinish(oServices["a"], containers["a"], clock, o)
          IN  /\ oServices' = [oServices EXCEPT !["a"] = r.svc]
              /\ containers' = [containers EXCEPT !["a"] = r.container]
              /\ clock' = r.clock
              /\ committed' = r.svc
              /\ tpc' = [tpc EXCEPT ![t] = AfterReturn(@, r.err)]
    /\ mu' = [mu EXCEPT !.w = ""]
    /\ UNCHANGED <<notThreadVars, seen>>

\* Stop under the lock: its two checks, then Stopping.
StopBegin(s) == [s EXCEPT !.state = "stopping"]

TStopBegin(t) ==
    /\ pc = "threads"
    /\ tpc[t].at = "locked"
    /\ tpc[t].m = "stop"
    /\ LET early == StopOutcomes(oServices["a"], containers["a"])
                        \cap {"not_running", "no_container_id"}
       IN  IF early # {}
           THEN /\ mu' = [mu EXCEPT !.w = ""]
                /\ tpc' = [tpc EXCEPT ![t] = AfterReturn(@, CHOOSE e \in early : TRUE)]
                /\ UNCHANGED oServices
           ELSE /\ oServices' = [oServices EXCEPT !["a"] = StopBegin(@)]
                /\ tpc' = [tpc EXCEPT ![t].at = "mid"]
                /\ UNCHANGED mu
    /\ UNCHANGED <<notThreadVars, seen, committed, containers, clock>>

ThreadStopOutcomes(s, c) ==
    IF scenario.reliable /\ "ok" \in StopOutcomes(s, c) THEN {"ok"} ELSE StopOutcomes(s, c)

\* client.StopAndRemove, the final state, then the deferred Unlock.
TStopFinish(t) ==
    /\ pc = "threads"
    /\ tpc[t].at = "mid"
    /\ tpc[t].m = "stop"
    /\ \E o \in ThreadStopOutcomes(oServices["a"], containers["a"]) :
          LET r == Stop(oServices["a"], containers["a"], clock, o)
          IN  /\ oServices' = [oServices EXCEPT !["a"] = r.svc]
              /\ containers' = [containers EXCEPT !["a"] = r.container]
              /\ clock' = r.clock
              /\ committed' = r.svc
              /\ tpc' = [tpc EXCEPT ![t] = AfterReturn(@, r.err)]
    /\ mu' = [mu EXCEPT !.w = ""]
    /\ UNCHANGED <<notThreadVars, seen>>

\* CheckHealth under the lock, then the deferred Unlock.
TCheckHealth(t) ==
    /\ pc = "threads"
    /\ tpc[t].at = "locked"
    /\ tpc[t].m = "checkHealth"
    /\ \E o \in CheckHealthOutcomes(oServices["a"], decl["a"].health) :
          LET r == CheckHealth(oServices["a"], o)
          IN  /\ oServices' = [oServices EXCEPT !["a"] = r.svc]
              /\ committed' = r.svc
              /\ tpc' = [tpc EXCEPT ![t] = AfterReturn(@, r.err)]
    /\ mu' = [mu EXCEPT !.w = ""]
    /\ UNCHANGED <<notThreadVars, seen, containers, clock>>

NextThreads ==
    \/ \E t \in Threads, m \in Methods : TCall(t, m)
    \/ \E t \in Threads : TLock(t)
    \/ \E t \in Threads : TRLock(t)
    \/ \E t \in Threads : TRead(t)
    \/ \E t \in Threads : TStartBegin(t)
    \/ \E t \in Threads : TStartFinish(t)
    \/ \E t \in Threads : TStopBegin(t)
    \/ \E t \in Threads : TStopFinish(t)
    \/ \E t \in Threads : TCheckHealth(t)

SpecThreads == InitThreads /\ [][NextThreads]_vars

\* ------------------------------------------------------------------------
\* Concurrent callers of one Orchestrator's registry
\* ------------------------------------------------------------------------

\* NewOrchestrator: an empty o.services shared by two goroutines.
InitRegistry ==
    /\ decl \in {[n \in Names |-> IF n \in D THEN Unit(<<>>, "none") ELSE Undeclared] :
                    D \in {{"a"}, {"a", "b"}}}
    /\ request = <<>>
    /\ pc = "registry"
    /\ order = <<>>
    /\ resolveErr = NoError
    /\ network = TRUE
    /\ oServices = [n \in Names |-> NoService]
    /\ levels = <<>>
    /\ levelNum = 0
    /\ startedServices = <<>>
    /\ gpc = [n \in Names |-> "none"]
    /\ errChan = <<>>
    /\ runErr = NoRunError
    /\ rbQueue = <<>>
    /\ containers = [n \in Names |-> NoContainer]
    /\ pre = [n \in Names |-> NoContainer]
    /\ clock = 0
    /\ startLog = <<>>
    /\ stopLog = <<>>
    /\ cancelled = FALSE
    /\ lastCall = NoCall
    /\ InitExt

\* The accesses to the map made so far.
RECURSIVE TotalAccesses(_)
TotalAccesses(T) ==
    IF T = {} THEN 0
    ELSE LET t == CHOOSE x \in T : TRUE IN acc[t].calls + TotalAccesses(T \ {t})

\* Two accesses to a Go map conflict when they overlap and one of them
\* writes.
Conflict(m1, m2) == m1 # "none" /\ m2 # "none" /\ "add" \in {m1, m2}

\* AddService / GetService begins its access to o.services; there is no
\* lock to wait for.
MapEnter(t, m, n) ==
    /\ pc = "registry"
    /\ acc[t].m = "none"
    /\ TotalAccesses(Threads) < MaxMapCalls
    /\ decl[n].declared
    /\ acc' = [u \in Threads |->
                  IF u = t
                  THEN [acc[t] EXCEPT !.m = m, !.name = n, !.calls = @ + 1,
                                      !.raced = \E v \in Threads \ {t} : Conflict(m, acc[v].m)]
                  ELSE [acc[u] EXCEPT !.raced = @ \/ Conflict(m, acc[u].m)]]
    /\ UNCHANGED <<pc, resolveVars, runVars, callVars, threadVars, gate>>

\* The access ends. Without a conflicting access AddService has stored a
\* new Service and GetService returns what the map holds. A conflicting
\* access is a data race: the Go runtime may stop the program with
\* "concurrent map read and map write" / "concurrent map writes", the
\* write may be lost and the read may miss the key.
MapExit(t) ==
    /\ pc = "registry"
    /\ acc[t].m # "none"
    /\ LET n == acc[t].name
       IN  \/ /\ acc[t].m = "add"
              /\ oServices' = [oServices EXCEPT ![n] = New]
              /\ acc' = [acc EXCEPT ![t] = [@ EXCEPT !.m = "none", !.raced = FALSE,
                                                      !.adds = @ + 1]]
              /\ UNCHANGED <<pc, seen>>
           \/ /\ acc[t].m = "lookup"
              /\ seen' = [seen EXCEPT ![t] = oServices[n]]
              /\ acc' = [acc EXCEPT ![t] = [@ EXCEPT !.m = "none", !.raced = FALSE]]
              /\ UNCHANGED <<pc, oServices>>
           \/ /\ acc[t].raced
              /\ acc[t].m = "add"
              /\ acc' = [acc EXCEPT ![t] = [@ EXCEPT !.m = "none", !.raced = FALSE,
                                                      !.adds = @ + 1]]
              /\ UNCHANGED <<pc, oServices, seen>>
           \/ /\ acc[t].raced
              /\ acc[t].m = "lookup"
              /\ seen' = [seen EXCEPT ![t] = NoService]
              /\ acc' = [acc EXCEPT ![t] = [@ EXCEPT !.m = "none", !.raced = FALSE]]
              /\ UNCHANGED <<pc, oServices>>
           \/ /\ acc[t].raced
              /\ pc' = "crashed"
              /\ UNCHANGED <<acc, oServices, seen>>
    /\ UNCHANGED <<resolveVars, callVars, mu, tpc, committed, scenario, gate, network,
                   levels, levelNum, startedServices, gpc, errChan, runErr, rbQueue,
                   containers, pre, clock, startLog, stopLog>>

\* Both goroutines have finished; the caller reads the registry alone.
MapJoin ==
    /\ pc = "registry"
    /\ \A t \in Threads : acc[t].m = "none"
    /\ pc' = "registryDone"
    /\ UNCHANGED <<resolveVars, runVars, callVars, extVars>>

NextRegistry ==
    \/ \E t \in Threads, m \in {"add", "lookup"}, n \in Names : MapEnter(t, m, n)
    \/ \E t \in Threads : MapExit(t)
    \/ MapJoin

SpecRegistry == InitRegistry /\ [][NextRegistry]_vars

\* ------------------------------------------------------------------------
\* StopAll
\* ------------------------------------------------------------------------

\* A unit of an orchestrator and its container: not added, added and never
\* started, after a Start that succeeded or failed, after a Stop that
\* succeeded or failed.
StopAllUnits ==
    {[svc |-> NoService, container |-> NoContainer],
     [svc |-> New, container |-> NoContainer]} \cup
    {[svc |-> r.svc, container |-> r.container] :
        r \in {StartFinish(StartBegin(New), NoContainer, 0, o) :
                  o \in {"ok", "run_fail", "start_fail"}}} \cup
    {[svc |-> r.svc, container |-> r.container] :
        r \in {Stop(Started.svc, Started.container, Started.clock, o) :
                  o \in {"ok", "stop_fail"}}}

\* o.StopAll(ctx) is called on an orchestrator whose units are in any of
\* these states, with a ctx that is or is not cancelled.
InitStopAll ==
    /\ decl = [n \in Names |-> Unit(<<>>, "none")]
    /\ request = <<>>
    /\ pc = "stopAll"
    /\ order = <<>>
    /\ resolveErr = NoError
    /\ network = TRUE
    /\ \E u \in [Names -> StopAllUnits] :
          /\ oServices = [n \in Names |-> u[n].svc]
          /\ containers = [n \in Names |-> u[n].container]
          /\ pre = [n \in Names |-> u[n].container]
    /\ levels = <<>>
    /\ levelNum = 0
    /\ startedServices = <<>>
    /\ gpc = [n \in Names |-> "none"]
    /\ errChan = <<>>
    /\ runErr = NoRunError
    /\ rbQueue = <<>>
    /\ clock = 2
    /\ startLog = <<>>
    /\ stopLog = <<>>
    /\ cancelled \in BOOLEAN
    /\ lastCall = NoCall
    /\ InitExt

\* StopAll, one iteration of the loop over o.services, whose order is that
\* of the map: a unit that is not Running is skipped, for a Running one a
\* goroutine is launched.
StopAllVisit(n) ==
    /\ pc = "stopAll"
    /\ oServices[n] # NoService
    /\ gpc[n] = "none"
    /\ gpc' = [gpc EXCEPT ![n] = IF oServices[n].state = "running"
                                 THEN "spawned" ELSE "skipped"]
    /\ UNCHANGED <<pc, extVars, resolveVars, callVars, network, oServices, levels,
                   levelNum, startedServices, errChan, runErr, rbQueue, containers, pre,
                   clock, startLog, stopLog>>

\* The goroutine of StopAll for one unit: service.Stop, whose error goes
\* into errChan.
GoStop(n) ==
    /\ pc = "stopAll"
    /\ gpc[n] = "spawned"
    /\ \E o \in StopOutcomesCtx(oServices[n], containers[n], cancelled) :
          LET r == Stop(oServices[n], containers[n], clock, o)
          IN  /\ oServices' = [oServices EXCEPT ![n] = r.svc]
              /\ containers' = [containers EXCEPT ![n] = r.container]
              /\ clock' = r.clock
              /\ errChan' = IF r.err = "none" THEN errChan
                            ELSE Append(errChan, RunError("stop", n, r.err))
    /\ stopLog' = Append(stopLog, n)
    /\ gpc' = [gpc EXCEPT ![n] = "stopDone"]
    /\ UNCHANGED <<pc, extVars, resolveVars, callVars, network, levels, levelNum,
                   startedServices, runErr, rbQueue, pre, startLog>>

\* StopAll after its loop: wg.Wait, close(errChan), and the result, an
\* error when any Stop failed.
StopAllReturn ==
    /\ pc = "stopAll"
    /\ \A n \in Names : oServices[n] # NoService => gpc[n] \in {"skipped", "stopDone"}
    /\ runErr' = IF errChan = <<>> THEN NoRunError ELSE RunError("stopAll", "", "stop")
    /\ pc' = "stopAllDone"
    /\ UNCHANGED <<extVars, resolveVars, callVars, network, oServices, levels, levelNum,
                   startedServices, gpc, errChan, rbQueue, containers, pre, clock,
                   startLog, stopLog>>

NextStopAll ==
    \/ \E n \in Names : StopAllVisit(n)
    \/ \E n \in Names : GoStop(n)
    \/ StopAllReturn

SpecStopAll == InitStopAll /\ [][NextStopAll]_vars

NextResolve == Resolve

SpecResolve == InitResolve /\ [][NextResolve]_vars

\* o.buildDependencyLevels(orderedServiceNames, allServices) on its own.
BuildLevels ==
    /\ pc = "levels"
    /\ levels' = buildDependencyLevels(order, decl)
    /\ pc' = "leveled"
    /\ UNCHANGED <<extVars, resolveVars, callVars, network, oServices, levelNum,
                   startedServices, gpc, errChan, runErr, rbQueue, containers, pre,
                   clock, startLog, stopLog>>

NextLevels == BuildLevels

SpecLevels == InitLevels /\ [][NextLevels]_vars

\* ------------------------------------------------------------------------
\* Graph notions used to state the properties (independent of the resolver)
\* ------------------------------------------------------------------------

DepSet(services, n) == Range(DependsOn(services, n))

\* Names reachable from S through depends_on entries, S included.
RECURSIVE ReachFrom(_, _)
ReachFrom(services, S) ==
    LET T == S \cup UNION {DepSet(services, n) : n \in S}
    IN  IF T = S THEN S ELSE ReachFrom(services, T)

Closure(services, requested) == ReachFrom(services, Range(requested))

OnCycle(services, n) == n \in ReachFrom(services, DepSet(services, n))

HasCycle(services, requested) == \E n \in Closure(services, requested) : OnCycle(services, n)

RequestDeclared == Range(request) \subseteq Declared(decl)

\* ResolveDependencies has returned: the command is past the call and did
\* not end before it.
Resolved ==
    /\ pc \notin {"load", "names", "docker", "resolve"}
    /\ runErr.kind \notin {"config", "serviceNotFound", "docker"}

\* ------------------------------------------------------------------------
\* Properties of the resolver
\* ------------------------------------------------------------------------

\* C6: for declarations whose closure is acyclic and a request of declared
\* names, ResolveDependencies succeeds and in the returned order every unit
\* comes after each of its dependencies that is in the closure.
C6_TopologicalValidity ==
    (Resolved /\ RequestDeclared /\ ~HasCycle(decl, request)) =>
        /\ resolveErr = NoError
        /\ \A u \in Range(order) : \A d \in DepSet(decl, u) :
              d \in Closure(decl, request) =>
                 /\ d \in Range(order)
                 /\ \A i, j \in DOMAIN order :
                       (order[i] = d /\ order[j] = u) => i < j

C6_Witness ==
    /\ Resolved /\ resolveErr = NoError
    /\ Len(order) = 3
    /\ \E u \in Range(order) : Cardinality(DepSet(decl, u) \ {u}) = 2

\* C7: when every requested name is declared and the closure of the request
\* contains a dependency cycle (a self-dependency included), the result is a
\* circular-dependency error and no order at all.
C7_CycleRejected ==
    (Resolved /\ RequestDeclared /\ HasCycle(decl, request)) =>
        /\ resolveErr.kind = "circular"
        /\ order = <<>>
        /\ pc = "done"

C7_Witness ==
    /\ Resolved /\ resolveErr.kind = "circular"
    /\ Len(resolveErr.path) = 4
    /\ resolveErr.path[1] = resolveErr.path[4]
    /\ order = <<>>

\* C8: the path of a circular-dependency error is a full cycle: it starts
\* and ends with the same unit and every consecutive pair (x, y) is a
\* declared dependency of x on y.
C8_PathIsFullCycle ==
    resolveErr.kind = "circular" =>
        LET p == resolveErr.path
        IN  /\ Len(p) >= 2
            /\ p[1] = p[Len(p)]
            /\ \A i \in 1..(Len(p) - 1) : p[i + 1] \in DepSet(decl, p[i])

\* C10: on success the returned order holds every name of the closure (the
\* requested names and every name reachable from them through depends_on
\* entries) exactly once, and nothing else.
C10_ExactClosure ==
    (Resolved /\ resolveErr = NoError) =>
        /\ Range(order) = Closure(decl, request)
        /\ NoDup(order)

C10_Witness ==
    /\ Resolved /\ resolveErr = NoError
    /\ Len(request) = 2 /\ request[1] # request[2]
    /\ \E d \in Names \ Range(request) :
          d \in DepSet(decl, request[1]) \cap DepSet(decl, request[2])
    /\ Len(order) = 3

\* The names of the closure that are listed as a dependency but are not
\* declared units.
Dangling == Closure(decl, request) \ Declared(decl)

\* C11: when a declared unit of the closure names a dependency that is not
\* a declared unit, ResolveDependencies returns no error and drops the
\* dangling name: every name of the returned order is a declared unit.
C11_DanglingDropped ==
    (Resolved /\ RequestDeclared /\ ~HasCycle(decl, request) /\ Dangling # {}) =>
        /\ resolveErr = NoError
        /\ Range(order) \subseteq Declared(decl)

\* The first requested name that is not a declared unit.
FirstMissing ==
    request[CHOOSE i \in DOMAIN request :
               /\ request[i] \notin Declared(decl)
               /\ \A j \in 1..(i - 1) : request[j] \in Declared(decl)]

\* C12: when some requested name is not a declared unit, the result is a
\* not-found error naming the first such name in request order, and no
\* order, whatever the other requested names are.
C12_FirstUnknownReported ==
    (Resolved /\ ~RequestDeclared) =>
        /\ resolveErr = NotFoundError(FirstMissing)
        /\ order = <<>>
        /\ pc = "done"

C12_Witness ==
    /\ Resolved
    /\ Len(request) = 2
    /\ request[1] \notin Declared(decl)
    /\ request[2] \notin Declared(decl)
    /\ request[1] # request[2]
    /\ resolveErr = NotFoundError(request[1])
    /\ order = <<>>

\* ------------------------------------------------------------------------
\* Properties of the level partitioner
\* ------------------------------------------------------------------------

Max(S) == CHOOSE m \in S : \A k \in S : k <= m

\* No unit reachable from S lies on a dependency cycle.
Acyclic(services, S) == \A n \in ReachFrom(services, S) : ~OnCycle(services, n)

\* Every dependency of a unit of S is in S.
DepClosed(services, S) == \A n \in S : DepSet(services, n) \subseteq S

\* The level of u counting only its dependencies inside S.
RECURSIVE LevelWithin(_, _, _)
LevelWithin(services, S, u) ==
    LET ds == DepSet(services, u) \cap S
    IN  IF ds = {} THEN 0 ELSE 1 + Max({LevelWithin(services, S, d) : d \in ds})

\* The level of u counting every name of its depends_on list.
RECURSIVE LevelOverAll(_, _)
LevelOverAll(services, u) ==
    LET ds == DepSet(services, u)
    IN  IF ds = {} THEN 0 ELSE 1 + Max({LevelOverAll(services, d) : d \in ds})

\* buildDependencyLevels has returned.
Leveled == pc = "leveled"

\* The 0-based index of the level a listed unit was placed in.
LevelIndex(n) == (CHOOSE i \in DOMAIN levels : n \in Range(levels[i])) - 1

\* A depends on B directly or transitively.
DependsOnTransitively(services, a, b) == b \in ReachFrom(services, DepSet(services, a))

\* C13 as claimed: the level of a listed unit counts only its dependencies
\* inside the list; a declared dependency outside the list does not raise
\* it.
C13_LevelWithinList ==
    (Leveled /\ Acyclic(decl, Range(order))) =>
        \A u \in Range(order) :
           /\ \E i \in DOMAIN levels : u \in Range(levels[i])
           /\ LevelIndex(u) = LevelWithin(decl, Range(order), u)

\* C13 amended: for a duplicate-free list whose units have acyclic
\* dependencies, the level of a listed unit is 0 when its depends_on list
\* is empty and otherwise 1 + the maximum level of all its dependencies,
\* computed over the whole declaration set whether or not a dependency is
\* in the list; this is the level counted inside the list when the list
\* holds every dependency of its units.
C13_LevelOverDeclarations ==
    (Leveled /\ Acyclic(decl, Range(order))) =>
        \A u \in Range(order) :
           /\ \E i \in DOMAIN levels : u \in Range(levels[i])
           /\ LevelIndex(u) = LevelOverAll(decl, u)
           /\ DepClosed(decl, Range(order)) =>
                 LevelIndex(u) = LevelWithin(decl, Range(order), u)

C13_Witness ==
    /\ Leveled
    /\ Len(order) = 1
    /\ \E d \in DepSet(decl, order[1]) \ Range(order) :
          decl[d].declared /\ DepSet(decl, d) # {}
    /\ Acyclic(decl, Range(order))
    /\ levels = << <<>>, <<>>, <<order[1]>> >>

\* C14: for listed units with acyclic dependencies, whenever B depends on A
\* directly or transitively, A is in a lower level than B; no two units of
\* the same level are related by a dependency.
C14_DependencyInLowerLevel ==
    (Leveled /\ Acyclic(decl, Range(order))) =>
        \A a, b \in Range(order) :
           DependsOnTransitively(decl, b, a) => LevelIndex(a) < LevelIndex(b)

C14_Witness ==
    /\ Leveled
    /\ Acyclic(decl, Range(order))
    /\ Len(levels) = 3
    /\ \E a, b \in Range(order) :
          /\ DependsOnTransitively(decl, b, a)
          /\ a \notin DepSet(decl, b)
          /\ LevelIndex(a) = 0 /\ LevelIndex(b) = 2

\* C15: the levels partition the list: every listed unit occurs at exactly
\* one position of exactly one level, and the levels hold nothing else.
C15_LevelsPartitionList ==
    Leveled =>
        /\ \A u \in Range(order) :
              Cardinality({<<i, j>> \in (DOMAIN levels) \X (1..Len(order)) :
                              j \in DOMAIN levels[i] /\ levels[i][j] = u}) = 1
        /\ \A i \in DOMAIN levels : Range(levels[i]) \subseteq Range(order)
        /\ \A i, k \in DOMAIN levels :
              i # k => Range(levels[i]) \cap Range(levels[k]) = {}
        /\ UNION {Range(levels[i]) : i \in DOMAIN levels} = Range(order)

C15_Witness ==
    /\ Leveled
    /\ Len(order) = 3
    /\ Len(levels) = 2
    /\ Len(levels[1]) = 2 /\ Len(levels[2]) = 1

\* The units at every level index, as sets.
LevelSets(ls) == [i \in DOMAIN ls |-> Range(ls[i])]

\* C16: for a fixed declaration set, every ordering of the same listed
\* units (with acyclic dependencies) yields the same set of units at every
\* level index, and running again on the same list yields the same levels.
C16_LevelsDeterministic ==
    (Leveled /\ Acyclic(decl, Range(order))) =>
        /\ buildDependencyLevels(order, decl) = levels
        /\ \A p \in Perms(Range(order)) :
              LevelSets(buildDependencyLevels(p, decl)) = LevelSets(levels)

C16_Witness ==
    /\ Leveled
    /\ Acyclic(decl, Range(order))
    /\ Len(order) = 3
    /\ Len(levels) = 2
    /\ \E p \in Perms(Range(order)) :
          /\ buildDependencyLevels(p, decl) # levels
          /\ LevelSets(buildDependencyLevels(p, decl)) = LevelSets(levels)

\* ------------------------------------------------------------------------
\* Properties of a run
\* ------------------------------------------------------------------------

\* The level (1-based) a unit was placed in, 0 when it is in none.
LevelOf(n) ==
    IF \E i \in DOMAIN levels : n \in Range(levels[i])
    THEN CHOOSE i \in DOMAIN levels : n \in Range(levels[i])
    ELSE 0

\* The dependencies of a unit that are part of the run.
RunDeps(n) == DepSet(decl, n) \cap Range(order)

\* StartServicesInOrder has returned an error / nil.
RunFailed == pc = "done" /\ runErr.kind \in {"start", "health", "notInOrchestrator"}

RunSucceeded == pc = "done" /\ resolveErr = NoError /\ runErr = NoRunError

\* A unit is Running and, if it declares a probe, classified Healthy.
Ready(n) ==
    /\ oServices[n].state = "running"
    /\ oServices[n].startedAt > 0
    /\ decl[n].health # "none" => oServices[n].healthStatus = "healthy"

\* Start is invoked on n in this step.
StartInvoked(n) == Len(startLog') = Len(startLog) + 1 /\ startLog'[Len(startLog')] = n

\* C1: whenever Start is invoked on a unit, every dependency of it in the
\* closure is Running and, if it declares a probe, Healthy; and when the
\* run succeeds, the start timestamp of every dependency precedes that of
\* its dependent.
C1_DependenciesReadyFirst ==
    [][ /\ \A b \in Names : StartInvoked(b) => \A a \in RunDeps(b) : Ready(a)
        /\ RunSucceeded' =>
              \A b \in Range(order') : \A a \in DepSet(decl', b) \cap Range(order') :
                 /\ 0 < oServices'[a].startedAt
                 /\ oServices'[a].startedAt < oServices'[b].startedAt ]_vars

C1_Witness ==
    /\ RunSucceeded
    /\ Len(levels) = 2
    /\ \E b \in Range(order) : \E a \in RunDeps(b) :
          /\ decl[a].health = "http"
          /\ oServices[b].state = "running"
          /\ oServices[a].startedAt < oServices[b].startedAt

\* C2 as claimed: after a failed run every unit that reached Running is
\* in state Stopped.
C2_AllStopped ==
    RunFailed => \A n \in Range(startedServices) : oServices[n].state = "stopped"

\* C2 amended: after a failed run Stop has been invoked exactly once on
\* every unit that reached Running, and the unit is in state Stopped, or in
\* state Failed when the runtime failed to stop or remove its container; no
\* unit is left Running.
C2_AllStoppedOrStopFailed ==
    RunFailed =>
        /\ \A n \in Range(startedServices) :
              /\ Count(stopLog, n) = 1
              /\ \/ oServices[n].state = "stopped"
                 \/ oServices[n].state = "failed" /\ oServices[n].lastError = "stop"
        /\ \A n \in Names : oServices[n].state # "running"

C2_Witness ==
    /\ RunFailed
    /\ \E n, m \in Range(startedServices) :
          /\ oServices[n].state = "failed" /\ oServices[n].lastError = "stop"
          /\ oServices[m].state = "stopped"

\* A container exists in the runtime.
Exists(c) == c.status # "none"

\* C3: after a failed run the runtime holds no container that the run
\* created, and every container that existed before the run still exists.
C3_PreAttemptState ==
    RunFailed =>
        \A n \in Names :
           /\ Exists(containers[n]) => Exists(pre[n]) /\ containers[n].id = pre[n].id
           /\ Exists(pre[n]) => Exists(containers[n]) /\ containers[n].id = pre[n].id

\* stopLog lists its units by strictly decreasing start timestamp.
ByDecreasingTimestamp(log) ==
    \A i, j \in DOMAIN log :
       i < j => oServices[log[i]].startedAt > oServices[log[j]].startedAt

\* C4 as claimed: rollback stops the started units in the reverse order of
\* their start timestamps, also within one level.
C4_ReverseTimestampOrder ==
    RunFailed =>
        /\ Range(stopLog) = Range(startedServices)
        /\ ByDecreasingTimestamp(stopLog)

\* C4 amended: rollback stops the started units in the exact reverse of the
\* order in which they were appended to the started list; that is the
\* reverse order of the start timestamps for units of different levels,
\* across the whole run.
C4_ReverseAppendOrder ==
    RunFailed =>
        /\ stopLog = Reverse(startedServices)
        /\ \A i, j \in DOMAIN stopLog :
              i < j =>
                 /\ LevelOf(stopLog[i]) >= LevelOf(stopLog[j])
                 /\ LevelOf(stopLog[i]) > LevelOf(stopLog[j]) =>
                       oServices[stopLog[i]].startedAt > oServices[stopLog[j]].startedAt

C4_Witness ==
    /\ RunFailed
    /\ Len(stopLog) = 3
    /\ LevelOf(stopLog[2]) = LevelOf(stopLog[3])
    /\ oServices[stopLog[2]].startedAt < oServices[stopLog[3]].startedAt

\* C5: once a unit of the level being processed has failed to start or has
\* failed the readiness gate, the failure stays recorded, the run never
\* moves to another level and Start is not invoked on any unit of a later
\* level.
C5_NoLaterLevelStarted ==
    [][ errChan # <<>> =>
           /\ errChan' # <<>>
           /\ levelNum' = levelNum
           /\ \A n \in Names :
                 LevelOf(n) > levelNum =>
                    /\ ~StartInvoked(n)
                    /\ n \notin Range(startLog')
                    /\ gpc'[n] = "none"
                    /\ oServices'[n].state = "pending" ]_vars

C5_Witness ==
    /\ RunFailed
    /\ runErr.kind = "start"
    /\ Len(startLog) = 2
    /\ levelNum < Len(levels)
    /\ \E n \in Names : LevelOf(n) > levelNum /\ oServices[n].state = "pending"

\* Nothing has been launched or created by the command.
NothingLaunched ==
    /\ startLog = <<>>
    /\ oServices = [n \in Names |-> NoService]
    /\ containers = pre
    /\ network = FALSE

\* The manifest and request of the scenario: a depends on b, b on a.
MutualAB ==
    /\ decl["a"].declared /\ decl["a"].deps = <<"b">>
    /\ decl["b"].declared /\ decl["b"].deps = <<"a">>
    /\ request = <<"a">>

\* C9 as claimed: the reported path is [a, b, a].
C9_PathFromRequested ==
    (MutualAB /\ Resolved) =>
        /\ pc = "done"
        /\ resolveErr = CircularError(<<"a", "b", "a">>)
        /\ NothingLaunched

\* C9 amended: the request fails with a circular-dependency error whose
\* path is [b, a, b] (it starts at the first unit of the post-order
\* closure, which is b), and no unit is launched.
C9_PathFromPostOrder ==
    (MutualAB /\ Resolved) =>
        /\ pc = "done"
        /\ resolveErr = CircularError(<<"b", "a", "b">>)
        /\ order = <<>>
        /\ NothingLaunched

C9_Witness ==
    /\ MutualAB
    /\ pc = "done"
    /\ resolveErr.kind = "circular"
    /\ startLog = <<>>

\* Two units of which neither depends on the other, directly or not.
Unrelated(u, v) ==
    /\ u # v
    /\ ~DependsOnTransitively(decl, u, v)
    /\ ~DependsOnTransitively(decl, v, u)

\* Start is running on u while it has not been invoked on v yet.
StartingBefore(u, v) == gpc[u] = "starting" /\ v \notin Range(startLog)

\* C17 as claimed: two units of a run with no dependency relationship are
\* under no ordering constraint: while one of them is starting and the
\* other has not begun, the other is free to begin (its launch is pending).
C17_UnrelatedUnordered ==
    \A u, v \in Range(order) :
       (Unrelated(u, v) /\ StartingBefore(u, v)) => gpc[v] = "spawned"

\* C17 amended: two units of a run placed in the same level have no
\* dependency relationship and are under no ordering constraint: while one
\* is starting and the other has not begun, the other is free to begin;
\* units of different levels, related or not, are ordered: Start is invoked
\* on the unit of the later level only after Start on the unit of the
\* earlier level has returned success.
C17_SameLevelUnordered ==
    \A u, v \in Range(order) :
       /\ (u # v /\ LevelOf(u) > 0 /\ LevelOf(u) = LevelOf(v)) =>
             /\ Unrelated(u, v)
             /\ StartingBefore(u, v) => gpc[v] = "spawned"
       /\ (0 < LevelOf(u) /\ LevelOf(u) < LevelOf(v) /\ v \in Range(startLog)) =>
             /\ oServices[u].startedAt > 0
             /\ gpc[u] \in {"done", "healthDone"}

C17_Witness ==
    \E u, v \in Range(order) :
       /\ Unrelated(u, v)
       /\ LevelOf(u) = LevelOf(v)
       /\ gpc[u] = "starting" /\ gpc[v] = "starting"
       /\ startLog[Len(startLog)] = u
       /\ IndexOf(order, u) < IndexOf(order, v)

\* Start has returned success on a unit in this run.
StartSucceeded(n) == oServices[n].startedAt > 0

\* C18: when a unit of a level fails to start, rollback begins only after
\* every Start launched in that level has run to completion, and it covers
\* every unit of that level whose Start succeeded together with the units
\* of all prior levels.
C18_LevelJoinedBeforeRollback ==
    ((pc = "rollback" \/ RunFailed) /\ runErr.kind = "start") =>
        /\ \A n \in Range(levelServices) :
              /\ gpc[n] = "done"
              /\ oServices[n].state # "starting"
        /\ \A n \in Names :
              (StartSucceeded(n) \/ (0 < LevelOf(n) /\ LevelOf(n) < levelNum)) =>
                 /\ n \in Range(startedServices)
                 /\ Count(rbQueue, n) + Count(stopLog, n) = 1
        /\ RunFailed => rbQueue = <<>>

C18_Witness ==
    /\ RunFailed
    /\ runErr.kind = "start"
    /\ levelNum = 2
    /\ Len(levelServices) = 2
    /\ Len(stopLog) = 2
    /\ \E n \in Range(levelServices) : StartSucceeded(n) /\ n \in Range(stopLog)
    /\ \E n \in Range(levelServices) : ~StartSucceeded(n) /\ oServices[n].state = "failed"
    /\ \E n \in Range(stopLog) : LevelOf(n) = 1

\* C19: the shared list never holds a unit twice; it holds exactly the
\* units whose Start has returned success, except those whose goroutine is
\* between the return of Start and its append; after the launch join of a
\* level no goroutine is there, and the list is exact.
C19_StartedListExact ==
    /\ NoDup(startedServices)
    /\ Range(startedServices) \cup {n \in Names : gpc[n] = "started"}
          = {n \in Names : StartSucceeded(n)}
    /\ Range(startedServices) \cap {n \in Names : gpc[n] = "started"} = {}
    /\ pc # "joinStart" =>
          /\ \A n \in Names : gpc[n] # "started"
          /\ Range(startedServices) = {n \in Names : StartSucceeded(n)}

C19_Witness ==
    /\ pc = "health"
    /\ Len(startedServices) = 2
    /\ LevelOf(startedServices[1]) = LevelOf(startedServices[2])
    /\ oServices[startedServices[1]].startedAt > oServices[startedServices[2]].startedAt
    /\ errChan = <<>>

\* The units whose readiness wait ended at the deadline.
TimedOut == {errChan[i].svc : i \in {j \in DOMAIN errChan : errChan[j].kind = "health"}}

\* C20: when a probed unit has not passed its probe by the gate deadline,
\* the run returns a health-timeout error naming that unit (the first one
\* to report when several time out), and rollback has invoked Stop once on
\* it and on every unit started before it, healthy ones included; none of
\* them is left Running.
C20_HealthTimeoutRollsBack ==
    (pc = "done" /\ TimedOut # {}) =>
        /\ runErr = errChan[1]
        /\ runErr.kind = "health" /\ runErr.cause = "timeout"
        /\ runErr.svc \in TimedOut
        /\ \A n \in TimedOut :
              /\ decl[n].health # "none"
              /\ oServices[n].healthStatus # "healthy"
              /\ StartSucceeded(n)
        /\ \A n \in Names :
              StartSucceeded(n) =>
                 /\ Count(stopLog, n) = 1
                 /\ oServices[n].state # "running"

C20_Witness ==
    /\ RunFailed
    /\ runErr.kind = "health"
    /\ TimedOut = {runErr.svc}
    /\ LevelOf(runErr.svc) = 2
    /\ oServices[runErr.svc].state = "stopped"
    /\ \E a \in Range(stopLog) :
          /\ LevelOf(a) = 1
          /\ decl[a].health = "http"
          /\ oServices[a].state = "stopped"
    /\ stopLog[1] = runErr.svc

\* A unit's Stop failed during rollback.
StopFailedInRollback(n) ==
    /\ n \in Range(stopLog)
    /\ oServices[n].state = "failed"
    /\ oServices[n].lastError = "stop"

\* C21: the error a failed run returns is the first launch or health error
\* reported in the failing level, for a unit of that level that did fail;
\* it is fixed when rollback begins and no Stop failure during rollback
\* replaces it.
C21_OriginalErrorReturned ==
    /\ [](RunFailed =>
            /\ errChan # <<>>
            /\ runErr = errChan[1]
            /\ runErr.kind \in {"start", "health"}
            /\ runErr.svc \in Range(levelServices)
            /\ runErr.kind = "start" =>
                  /\ ~StartSucceeded(runErr.svc)
                  /\ oServices[runErr.svc].state = "failed"
                  /\ oServices[runErr.svc].lastError = runErr.cause
            /\ runErr.kind = "health" =>
                  /\ runErr.cause = "timeout"
                  /\ decl[runErr.svc].health # "none")
    /\ [][pc = "rollback" => runErr' = runErr]_vars

C21_Witness ==
    /\ RunFailed
    /\ runErr.kind = "health"
    /\ \E n \in Names : StopFailedInRollback(n)
    /\ \E n \in Names : n # runErr.svc /\ oServices[n].state = "stopped"

\* C22: rollback attempts Stop exactly once on every unit of the started
\* list, last to first; whatever a Stop returns, the remaining units are
\* still attempted and none is attempted again.
C22_EveryUnitAttemptedOnce ==
    (pc = "rollback" \/ RunFailed) =>
        /\ stopLog \o rbQueue = Reverse(startedServices)
        /\ NoDup(stopLog \o rbQueue)
        /\ RunFailed => Len(stopLog) = Len(startedServices)

C22_Witness ==
    /\ RunFailed
    /\ Len(stopLog) = 3
    /\ StopFailedInRollback(stopLog[1])
    /\ oServices[stopLog[2]].state = "stopped"
    /\ StopFailedInRollback(stopLog[3])

\* The up command has met a validation error: a requested name that is
\* not declared, a dependency on the unit itself or on a name that is not
\* declared, or a circular dependency.
ValidationError ==
    \/ runErr.kind = "serviceNotFound"
    \/ runErr.kind = "config" /\ runErr.cause \in {"selfDependency", "unknownDependency"}
    \/ resolveErr.kind \in {"notfound", "circular"}

\* C24: a validation error (unknown requested unit, circular dependency)
\* ends the up command before anything is started: no Start is invoked,
\* the orchestrator holds no unit, the containers are the ones that were
\* there before and no project network is created.
C24_ValidationErrorNoSideEffects ==
    ValidationError =>
        /\ pc = "done"
        /\ order = <<>>
        /\ levels = <<>>
        /\ runErr.kind \in {"none", "serviceNotFound", "config"}
        /\ NothingLaunched
        /\ stopLog = <<>>

C24_Witness ==
    /\ pc = "done"
    /\ \/ /\ runErr.kind = "serviceNotFound"
          /\ Len(request) = 2
          /\ runErr.svc = request[2]
       \/ resolveErr.kind = "circular"
    /\ containers["a"].status = "up"
    /\ NothingLaunched

\* C23: when ctx is cancelled during a run, the run returns an error and
\* rollback stops the units already started: none of them is left running.
C23_CancelRollsBack ==
    (pc = "done" /\ cancelled) =>
        /\ runErr # NoRunError
        /\ \A n \in Names :
              StartSucceeded(n) =>
                 /\ oServices[n].state = "stopped"
                 /\ containers[n].status # "up"

\* ------------------------------------------------------------------------
\* Properties of the unit lifecycle
\* ------------------------------------------------------------------------

\* The unit the lifecycle methods are called on.
unit == oServices["a"]

\* This step is a call of the method op; lastCall' holds what it returned.
Called(op) == lastCall'.seq = lastCall.seq + 1 /\ lastCall'.op = op

\* The call changes neither the unit nor the runtime.
NothingChanged ==
    /\ oServices' = oServices
    /\ containers' = containers
    /\ clock' = clock

\* C25 as claimed: once the unit is Stopped or Failed, no later Start, Stop
\* or CheckHealth changes its state.
C25_StoppedFailedTerminal ==
    [][unit.state \in {"stopped", "failed"} => unit'.state = unit.state]_vars

\* C25 amended: on a Stopped or Failed unit CheckHealth returns not-running
\* and changes nothing, and so does Stop on a Stopped unit or on a Failed
\* unit without a runtime handle; Start is accepted and takes the unit to
\* Running (on success) or Failed, and Stop on a Failed unit that holds a
\* runtime handle takes it to Stopped (on success) or Failed.
C25_OnlyCheckHealthKeepsState ==
    [][unit.state \in {"stopped", "failed"} =>
          /\ Called("checkHealth") =>
                /\ lastCall'.err = "not_running"
                /\ NothingChanged
          /\ (Called("stop") /\ (unit.state = "stopped" \/ unit.containerID = 0)) =>
                /\ lastCall'.err \in {"not_running", "no_container_id"}
                /\ NothingChanged
          /\ (Called("stop") /\ unit.state = "failed" /\ unit.containerID # 0) =>
                /\ lastCall'.err = "none" <=> unit'.state = "stopped"
                /\ lastCall'.err # "none" <=> unit'.state = "failed"
          /\ Called("start") =>
                /\ lastCall'.err # "already_running"
                /\ lastCall'.err = "none" <=> unit'.state = "running"
                /\ lastCall'.err # "none" <=> unit'.state = "failed" ]_vars

C25_Witness ==
    /\ pc = "lifecycle"
    /\ lastCall.op = "start" /\ lastCall.err = "none"
    /\ unit.state = "running"
    /\ unit.stoppedAt > 0
    /\ unit.startedAt > unit.stoppedAt

\* C26 as claimed: a failed CheckHealth on a Running unit makes the unit
\* Failed and its health classification Unhealthy.
C26_FailedProbeFailsUnit ==
    [][(Called("checkHealth") /\ unit.state = "running" /\ lastCall'.err # "none") =>
          /\ unit'.state = "failed"
          /\ unit'.healthStatus = "unhealthy" ]_vars

\* C26 amended: a failed CheckHealth on a Running unit sets its health
\* classification to Unhealthy and changes nothing else: the unit stays
\* Running, keeps its runtime handle and records no last error; Failed is
\* entered from Start and Stop only.
C26_FailedProbeKeepsRunning ==
    [][ /\ (Called("checkHealth") /\ unit.state = "running" /\ lastCall'.err # "none") =>
              /\ unit' = [unit EXCEPT !.healthStatus = "unhealthy"]
              /\ containers' = containers
        /\ (unit.state # "failed" /\ unit'.state = "failed") =>
              Called("start") \/ Called("stop") ]_vars

C26_Witness ==
    /\ pc = "lifecycle"
    /\ lastCall.op = "checkHealth" /\ lastCall.err = "probe"
    /\ unit.state = "running"
    /\ unit.healthStatus = "unhealthy"
    /\ unit.lastError = "none"

\* C27: Start on a Running unit returns an already-running error without
\* calling the runtime and leaves state, runtime handle, health
\* classification, timestamps and last error as they were.
C27_StartOnRunningRejected ==
    [][(Called("start") /\ unit.state = "running") =>
          /\ lastCall'.err = "already_running"
          /\ lastCall'.rt = 0
          /\ NothingChanged ]_vars

C27_Witness ==
    /\ pc = "lifecycle"
    /\ lastCall.op = "start" /\ lastCall.err = "already_running"
    /\ unit.state = "running"
    /\ unit.healthStatus = "healthy"
    /\ containers["a"].status = "up" /\ containers["a"].id = unit.containerID

\* C28: when Start returns success the unit is Running with a non-empty
\* runtime handle (that of the container now up), a start timestamp taken
\* in this call, health classification Unknown and no last error.
C28_StartSuccessState ==
    [][(Called("start") /\ lastCall'.err = "none") =>
          /\ unit'.state = "running"
          /\ unit'.containerID # 0
          /\ containers'["a"] = [status |-> "up", id |-> unit'.containerID]
          /\ unit'.startedAt = clock' /\ clock' > clock
          /\ unit'.healthStatus = "unknown"
          /\ unit'.lastError = "none" ]_vars

C28_Witness ==
    /\ pc = "lifecycle"
    /\ lastCall.op = "start" /\ lastCall.err = "none"
    /\ lastCall.seq = 2
    /\ unit.state = "running"
    /\ unit.containerID = 2
    /\ unit.stoppedAt = 0
    /\ unit.lastError = "none"

\* C29: when Start fails for a reason other than the unit being Running,
\* the unit ends Failed with the returned error as its last error, and
\* client.Run has been called at most once.
C29_StartFailureState ==
    [][(Called("start") /\ lastCall'.err \notin {"none", "already_running"}) =>
          /\ unit'.state = "failed"
          /\ unit'.lastError = lastCall'.err
          /\ lastCall'.runs <= 1
          /\ unit'.startedAt = unit.startedAt ]_vars

C29_Witness ==
    /\ pc = "lifecycle"
    /\ lastCall.op = "start" /\ lastCall.err = "already_up"
    /\ unit.state = "failed"
    /\ unit.lastError = "already_up"
    /\ lastCall.runs = 0

\* C30: Stop on a Pending or Stopped unit returns a not-running error
\* without calling the runtime and leaves every field of the unit as it was.
C30_StopWhenNotRunningRejected ==
    [][(Called("stop") /\ unit.state \in {"pending", "stopped"}) =>
          /\ lastCall'.err = "not_running"
          /\ lastCall'.rt = 0
          /\ NothingChanged ]_vars

C30_Witness ==
    /\ pc = "lifecycle"
    /\ lastCall.op = "stop" /\ lastCall.err = "not_running"
    /\ unit.state = "stopped"
    /\ unit.stoppedAt > 0
    /\ containers["a"].status = "none"

\* C31: Stop on a Running unit either succeeds, leaving the unit Stopped
\* with an empty runtime handle and a stop timestamp taken in this call, or
\* fails in the runtime, leaving the unit Failed with the returned error
\* recorded as its last error.
C31_StopOutcomeState ==
    [][(Called("stop") /\ unit.state = "running") =>
          /\ lastCall'.err \in {"none", "stop"}
          /\ lastCall'.err = "none" =>
                /\ unit'.state = "stopped"
                /\ unit'.containerID = 0
                /\ unit'.stoppedAt = clock' /\ clock' > clock
                /\ containers'["a"].status = "none"
          /\ lastCall'.err = "stop" =>
                /\ unit'.state = "failed"
                /\ unit'.lastError = "stop"
                /\ unit'.containerID = unit.containerID
                /\ unit'.stoppedAt = unit.stoppedAt ]_vars

C31_Witness ==
    /\ pc = "lifecycle"
    /\ lastCall.op = "stop" /\ lastCall.err = "none" /\ lastCall.rt = 1
    /\ unit.state = "stopped"
    /\ unit.containerID = 0
    /\ unit.startedAt > 0
    /\ unit.stoppedAt > unit.startedAt

\* C32: CheckHealth on a unit that is not Running returns a not-running
\* error, performs no probe and leaves the unit as it was.
C32_CheckHealthOnlyWhenRunning ==
    [][(Called("checkHealth") /\ unit.state # "running") =>
          /\ lastCall'.err = "not_running"
          /\ lastCall'.probes = 0
          /\ NothingChanged ]_vars

C32_Witness ==
    /\ pc = "lifecycle"
    /\ lastCall.op = "checkHealth" /\ lastCall.err = "not_running"
    /\ decl["a"].health = "http"
    /\ unit.state = "failed"
    /\ unit.containerID # 0

\* C33: CheckHealth on a Running unit without a readiness probe, or with
\* a probe whose endpoint is empty, returns success, sets the health
\* classification to Healthy, changes nothing else and performs no probe.
C33_NoProbeIsHealthy ==
    [][(Called("checkHealth") /\ unit.state = "running"
                              /\ decl["a"].health \in {"none", "noendpoint"}) =>
          /\ lastCall'.err = "none"
          /\ lastCall'.probes = 0
          /\ unit' = [unit EXCEPT !.healthStatus = "healthy"]
          /\ containers' = containers ]_vars

C33_Witness ==
    /\ pc = "lifecycle"
    /\ lastCall.op = "checkHealth" /\ lastCall.err = "none" /\ lastCall.probes = 0
    /\ decl["a"].health = "noendpoint"
    /\ unit.state = "running"
    /\ unit.healthStatus = "healthy"

\* C40 as claimed: between operations a Pending or Stopped unit has an
\* empty runtime handle and a Running unit a non-empty one, and a failed
\* Start never stores a handle: a Failed unit holds one only because a
\* failed Stop kept it.
C40_HandleOnlyFromSuccessfulStart ==
    /\ [](pc = "lifecycle" =>
            /\ unit.state \in {"pending", "stopped"} => unit.containerID = 0
            /\ unit.state = "running" => unit.containerID # 0)
    /\ [][(Called("start") /\ lastCall'.err # "none") =>
            unit'.containerID = unit.containerID]_vars

\* C39: when StartServicesInOrder returns nil, every unit of the ordered
\* list is Running with a runtime handle and a container that is up, and
\* every unit that declares a readiness probe is classified Healthy.
C39_SuccessMeansRunningAndHealthy ==
    RunSucceeded =>
        \A n \in Range(order) :
            /\ oServices[n].state = "running"
            /\ oServices[n].containerID # 0
            /\ containers[n] = [status |-> "up", id |-> oServices[n].containerID]
            /\ decl[n].health # "none" => oServices[n].healthStatus = "healthy"

C39_Witness ==
    /\ RunSucceeded
    /\ Len(order) = 3
    /\ decl["a"].health = "http" /\ oServices["a"].healthStatus = "healthy"
    /\ decl["b"].health = "noendpoint" /\ oServices["b"].healthStatus = "healthy"
    /\ decl["c"].health = "none" /\ oServices["c"].healthStatus = "unknown"
    /\ \A n \in Names : oServices[n].state = "running"

\* C38 as claimed: every goroutine of a join sends at most one error, so
\* the channel never holds more errors than the level has units and no send
\* blocks; if every runtime call and every probe returns, both joins of
\* every level complete and the run returns.
C38_RunTerminates ==
    /\ [](/\ Len(errChan) <= Len(levelServices)
          /\ \A i, j \in DOMAIN errChan : i # j => errChan[i].svc # errChan[j].svc
          /\ \A n \in Names : gpc[n] # "blocked")
    /\ (pc = "level") ~> (pc = "done")

\* C37 as claimed: the wait reports a timeout only after at least one
\* probe of the unit, and whatever the declared poll interval, a unit whose
\* probe succeeds from the start passes the wait (unless the caller
\* cancels).
C37_TimeoutOnlyAfterProbe ==
    /\ gate.result = "timeout" => gate.probes >= 1
    /\ (pc \in {"gateDone", "panic"} /\ ~cancelled /\ gate.readyAt = 0 /\
        gate.retries >= 0 /\ decl["a"].health = "http") => gate.result = "healthy"

\* ------------------------------------------------------------------------
\* Properties of concurrent callers
\* ------------------------------------------------------------------------

\* A caller is inside Start, Stop or CheckHealth / inside a getter.
InWriter(t) == tpc[t].m \in {"start", "stop", "checkHealth"} /\ tpc[t].at \in {"locked", "mid"}

InReader(t) == tpc[t].m = "get" /\ tpc[t].at = "locked"

\* C34: on one unit no caller is inside Start, Stop or CheckHealth while
\* another caller is inside any of them or inside a getter, and what a
\* getter returns is the fields as the last completed method left them:
\* never Starting or Stopping, never a half-applied transition.
C34_GettersSeeCompletedOperations ==
    /\ [](\A t, u \in Threads :
            (t # u /\ InWriter(t)) => ~InWriter(u) /\ ~InReader(u))
    /\ [][\A t \in Threads :
            (InReader(t) /\ tpc'[t] # tpc[t]) =>
                /\ seen'[t] = committed
                /\ seen'[t].state \notin {"starting", "stopping"}]_vars

C34_Witness ==
    /\ pc = "threads"
    /\ tpc["t1"].m = "stop" /\ tpc["t1"].at = "mid"
    /\ oServices["a"].state = "stopping"
    /\ tpc["t2"].m = "get" /\ tpc["t2"].at = "call" /\ tpc["t2"].calls = 2
    /\ seen["t2"].state = "running"
    /\ committed.state = "running"

\* C36 as claimed: with a runtime that never fails, on a unit that is
\* Running, every Restart returns success and leaves the unit Running,
\* whatever Restart and Stop calls run concurrently on the unit.
C36_RestartIsSerialized ==
    [][(scenario.reliable /\ scenario.methods = {"restart", "stop"}) =>
          \A t \in Threads :
              (tpc[t].outer = "restart" /\ tpc'[t].outer = "none") =>
                  /\ tpc'[t].err = "none"
                  /\ oServices'["a"].state = "running"]_vars

\* C35 as claimed: no write to the orchestrator's registry overlaps any
\* other access to it, the program is not stopped by the runtime, and once
\* the callers have finished GetService returns every unit that was added.
C35_RegistryAccessExclusive ==
    /\ \A t, u \in Threads : t # u => ~Conflict(acc[t].m, acc[u].m)
    /\ pc # "crashed"
    /\ pc = "registryDone" =>
          \A t \in Threads : acc[t].adds > 0 => oServices[acc[t].name] = New

====
